---- MODULE Spec2Model ----
(***************************************************************************)
(* Clipper Catalog (ClipperCatalog.tsx, main.tsx): the catalog component   *)
(* as a state machine.  Strings are sequences of one-character strings,    *)
(* front-matter values are tagged records, the vault and the metadata      *)
(* cache are separate (the cache lags the vault), and every asynchronous   *)
(* handler is cut at its awaits.                                           *)
(***************************************************************************)
EXTENDS Integers, Sequences, FiniteSets, TLC

VARIABLES
    vault,               \* app.vault: document id -> file (parent, basename, front-matter blocks, body)
    cache,               \* app.metadataCache: document id -> the front-matter it last parsed
    settings,            \* plugin.settings
    ignoredDirectories,  \* advancedSettings.ignoredDirectories
    articles,            \* useState articles: the visible snapshot
    isLoading,           \* useState isLoading
    isRefreshing,        \* useState isRefreshing
    error,               \* useState error ("" is null)
    searchTerm,          \* useState searchTerm
    sortConfig,          \* useState sortConfig
    hideCompleted,       \* useState hideCompleted
    showOnlyCompleted,   \* useState showOnlyCompleted
    mounted,             \* the component's effects have run
    passes,              \* loadArticles calls suspended at an await
    ops,                 \* checkbox onChange calls suspended at an await
    nEdits,              \* external edits so far (bounded)
    nClicks,             \* checkbox clicks so far (bounded)
    nTicks,              \* interval ticks and refresh clicks so far (bounded)
    isExpanded,          \* advancedSettings.isExpanded
    otherView,           \* the advancedSettings state of a second open catalog view
    view                 \* ClipperCatalogView: what its root renders, and the roots it left

vars == <<vault, cache, settings, ignoredDirectories, articles, isLoading,
          isRefreshing, error, searchTerm, sortConfig, hideCompleted,
          showOnlyCompleted, mounted, passes, ops, nEdits, nClicks, nTicks,
          isExpanded, otherView, view>>

-----------------------------------------------------------------------------
(* Strings *)

\* String.prototype.toLowerCase, per character
LowerChar(c) ==
    CASE c = "A" -> "a"
      [] c = "B" -> "b"
      [] c = "U" -> "u"
      [] OTHER -> c

ToLowerCase(s) == [i \in 1..Len(s) |-> LowerChar(s[i])]

\* the whitespace String.prototype.trim strips
IsSpace(c) == c = " "

RECURSIVE TrimStart(_)
TrimStart(s) ==
    IF Len(s) > 0 /\ IsSpace(s[1]) THEN TrimStart(Tail(s)) ELSE s

RECURSIVE TrimEnd(_)
TrimEnd(s) ==
    IF Len(s) > 0 /\ IsSpace(s[Len(s)]) THEN TrimEnd(SubSeq(s, 1, Len(s) - 1)) ELSE s

Trim(s) == TrimEnd(TrimStart(s))

StartsWith(s, p) == Len(p) <= Len(s) /\ SubSeq(s, 1, Len(p)) = p

\* String.prototype.includes
Includes(s, sub) ==
    \E i \in 0..(Len(s) - Len(sub)) : SubSeq(s, i + 1, i + Len(sub)) = sub

\* String.prototype.split(sep) for a one-character separator
RECURSIVE Split(_, _)
Split(s, sep) ==
    IF \E i \in 1..Len(s) : s[i] = sep
    THEN LET k == CHOOSE i \in 1..Len(s) :
                      s[i] = sep /\ \A j \in 1..(i - 1) : s[j] # sep
         IN  <<SubSeq(s, 1, k - 1)>> \o Split(SubSeq(s, k + 1, Len(s)), sep)
    ELSE <<s>>

\* [...new Set(seq)]: first occurrences, in order
DedupeMutNone(seq) == seq

RECURSIVE Dedupe(_)
Dedupe(seq) ==
    IF seq = <<>> THEN <<>>
    ELSE LET init == Dedupe(SubSeq(seq, 1, Len(seq) - 1))
             last == seq[Len(seq)]
         IN  IF \E i \in 1..Len(init) : init[i] = last THEN init
             ELSE Append(init, last)

\* every string over alphabet A of length at most n
RECURSIVE StringsUpTo(_, _)
StringsUpTo(A, n) ==
    IF n = 0 THEN {<<>>}
    ELSE LET S == StringsUpTo(A, n - 1)
         IN  S \cup {Append(s, c) : s \in S, c \in A}

-----------------------------------------------------------------------------
(* Path exclusion *)

\* .replace(/\\/g, '/')
BackslashesToSlashes(s) == [i \in 1..Len(s) |-> IF s[i] = "\\" THEN "/" ELSE s[i]]

\* .replace(/\/$/, '')
StripTrailingSlash(s) ==
    IF Len(s) > 0 /\ s[Len(s)] = "/" THEN SubSeq(s, 1, Len(s) - 1) ELSE s

\* DirMatches comparing the segments as written, not lower-cased
DirMatchesMutCase(dir, filePath) ==
    LET dirParts  == Split(StripTrailingSlash(BackslashesToSlashes(dir)), "/")
        pathParts == Split(BackslashesToSlashes(filePath), "/")
    IN  IF Len(pathParts) < Len(dirParts) THEN FALSE
        ELSE IF \E i \in 1..Len(dirParts) : dirParts[i] # pathParts[i] THEN FALSE
             ELSE \/ Len(dirParts) = Len(pathParts) - 1
                  \/ Len(dirParts) = Len(pathParts)

\* the callback of ignoredDirectories.some(dir => ...), with its early returns
DirMatches(dir, filePath) ==
    LET normalizedDir  == StripTrailingSlash(BackslashesToSlashes(dir))
        normalizedPath == BackslashesToSlashes(filePath)
        dirParts  == Split(normalizedDir, "/")
        pathParts == Split(normalizedPath, "/")
    IN  IF Len(pathParts) < Len(dirParts) THEN FALSE
        ELSE IF \E i \in 1..Len(dirParts) :
                    ToLowerCase(dirParts[i]) # ToLowerCase(pathParts[i])
             THEN FALSE
             ELSE \/ Len(dirParts) = Len(pathParts) - 1
                  \/ Len(dirParts) = Len(pathParts)

isPathIgnored(filePath, dirs) ==
    \E k \in 1..Len(dirs) : DirMatches(dirs[k], filePath)

-----------------------------------------------------------------------------
(* Front-matter values: the untyped values of metadata.frontmatter *)

Undef   == [t |-> "undef"]
Str(s)  == [t |-> "str", s |-> s]
Bool(b) == [t |-> "bool", b |-> b]
Num(n)  == [t |-> "num", n |-> n]
Lst(l)  == [t |-> "list", l |-> l]

\* frontmatter[key]
Get(fm, key) == IF key \in DOMAIN fm THEN fm[key] ELSE Undef

\* JavaScript truthiness: if (value)
Truthy(v) ==
    CASE v.t = "undef" -> FALSE
      [] v.t = "str"   -> Len(v.s) > 0
      [] v.t = "bool"  -> v.b
      [] v.t = "num"   -> v.n # 0
      [] OTHER         -> TRUE

\* item => typeof item === 'string' && item.trim() !== ''
IsNonBlankString(item) == item.t = "str" /\ Trim(item.s) # <<>>

IsNonEmptyString(s) == s # <<>>

\* plugin.settings.sourcePropertyName.split(',').map(name => name.trim()).filter(Boolean)
PropertyNames(sourcePropertyName) ==
    LET parts   == Split(sourcePropertyName, ",")
        trimmed == [i \in 1..Len(parts) |-> Trim(parts[i])]
    IN  SelectSeq(trimmed, IsNonEmptyString)

\* value.filter(item => typeof item === 'string' && item.trim() !== '')
FilteredValueMutKeepAll(value) == value.l

FilteredValue(value) == SelectSeq(value.l, IsNonBlankString)

\* whether the loop body assigns urls[propName] for this value
StoresValue(value) ==
    IF Truthy(value)
    THEN IF value.t = "list" THEN Len(FilteredValue(value)) > 0 ELSE TRUE
    ELSE FALSE

\* what the loop body assigns
StoredValue(value) ==
    IF value.t = "list" THEN Lst(FilteredValue(value)) ELSE value

\* the urls object after the loop over propertyNames
CollectUrls(fm, propertyNames) ==
    LET stored == {propertyNames[i] : i \in
                      {j \in 1..Len(propertyNames) : StoresValue(Get(fm, propertyNames[j]))}}
    IN  [name \in stored |-> StoredValue(Get(fm, name))]

\* metadata.frontmatter[plugin.settings.readPropertyName] === true
ReadFlag(fm, readPropertyName) == Get(fm, readPropertyName) = Bool(TRUE)

\* new URL(url) succeeds: an absolute URL starts with a scheme, a letter followed
\* by letters, then ':' (leading and trailing spaces are stripped first)
IsLetter(c) == c \in {"a", "b", "A", "B", "h", "t", "p", "s"}

isValidUrl(url) ==
    IF url.t = "list"
    THEN Len(url.l) > 0 /\ \A i \in 1..Len(url.l) :
             url.l[i].t = "str" /\
             LET u == Trim(url.l[i].s)
             IN  \E k \in 2..Len(u) : u[k] = ":" /\ \A j \in 1..(k - 1) : IsLetter(u[j])
    ELSE url.t = "str" /\
         LET u == Trim(url.s)
         IN  \E k \in 2..Len(u) : u[k] = ":" /\ \A j \in 1..(k - 1) : IsLetter(u[j])

-----------------------------------------------------------------------------
(* Tags *)

TagsKey == <<"t", "a", "g", "s">>

\* tag => tag.startsWith('#') ? tag.slice(1) : tag
StripHash(tag) == IF StartsWith(tag, <<"#">>) THEN Tail(tag) ELSE tag

processFrontmatterTagsMutNoThrow(fm, includeFrontmatterTags) ==
    [threw |-> FALSE, tags |-> <<>>]

\* processFrontmatterTags: [threw, tags]; a value with no split method, or an entry
\* with no startsWith method, throws a TypeError
processFrontmatterTags(fm, includeFrontmatterTags) ==
    LET raw == Get(fm, TagsKey)
    IN  IF ~includeFrontmatterTags \/ ~Truthy(raw) THEN [threw |-> FALSE, tags |-> <<>>]
        ELSE IF raw.t \notin {"list", "str"} THEN [threw |-> TRUE, tags |-> <<>>]
        ELSE IF raw.t = "list" /\ \E i \in 1..Len(raw.l) : raw.l[i].t # "str"
             THEN [threw |-> TRUE, tags |-> <<>>]
        ELSE LET tags == IF raw.t = "list"
                         THEN [i \in 1..Len(raw.l) |-> raw.l[i].s]
                         ELSE LET parts == Split(raw.s, ",")
                              IN  [i \in 1..Len(parts) |-> Trim(parts[i])]
                 stripped == [i \in 1..Len(tags) |-> StripHash(tags[i])]
             IN  [threw |-> FALSE, tags |-> SelectSeq(stripped, IsNonEmptyString)]

\* processContentTags: metadata.tags holds bare strings (t = "str") or objects with a
\* tag field (t = "tagobj"); <<>> stands for undefined as well as for the empty list
processContentTags(tags) ==
    LET names    == [i \in 1..Len(tags) |-> tags[i].s]
        stripped == [i \in 1..Len(names) |-> StripHash(names[i])]
    IN  SelectSeq(stripped, IsNonEmptyString)

-----------------------------------------------------------------------------
(* Documents, the metadata cache and the catalog's records *)

\* the read-status property written by the checkbox: a front-matter block holding it alone
ReadBlock(readPropertyName, isChecked) ==
    [k \in {readPropertyName} |-> Bool(isChecked)]

\* frontmatter[readPropertyName] = isChecked, every other key kept
SetReadProperty(fm, readPropertyName, isChecked) ==
    [k \in DOMAIN fm \cup {readPropertyName} |->
        IF k = readPropertyName THEN Bool(isChecked) ELSE fm[k]]

\* the text of a file: its front-matter blocks (the first one is the file's front-matter,
\* any further one is body text that reads as a block) and its body
Content(doc) == [blocks |-> doc.blocks, body |-> doc.body]

\* what the metadata cache holds once it has indexed the file
ParseDoc(doc) ==
    [has  |-> doc.blocks # <<>>,
     fm   |-> IF doc.blocks # <<>> THEN Head(doc.blocks) ELSE <<>>,
     tags |-> doc.body.tags]

\* file.path
FilePath(doc) ==
    IF doc.parent = <<"/">> THEN doc.basename \o <<".", "m", "d">>
    ELSE doc.parent \o <<"/">> \o doc.basename \o <<".", "m", "d">>

\* app.vault.getMarkdownFiles(), in a fixed order
Docs == {"d1", "d2"}

DocOrder == SelectSeq(<<"d1", "d2", "d3">>, LAMBDA d : d \in DOMAIN vault)

\* app.vault.getAbstractFileByPath(path)
FilesByPath(path) == {d \in DOMAIN vault : FilePath(vault[d]) = path}

\* the object pushed onto articleFiles
Article(d, meta, urls, read, content, frontmatterTags, contentTags) ==
    [title           |-> vault[d].basename,
     urls            |-> urls,
     path            |-> FilePath(vault[d]),
     date            |-> vault[d].ctime,
     tags            |-> Dedupe(frontmatterTags \o contentTags),
     frontmatterTags |-> frontmatterTags,
     contentTags     |-> contentTags,
     basename        |-> vault[d].basename,
     content         |-> content,
     read            |-> read]

-----------------------------------------------------------------------------
(* loadArticles *)

\* loadArticles calls that may be suspended at once
MaxPasses == 2

\* the loop body up to its await: whether the file reaches app.vault.read
FileQualifiesMutNoUrls(d, rules) ==
    /\ ~isPathIgnored(vault[d].parent, rules)
    /\ cache[d].has

FileQualifies(d, rules) ==
    /\ ~isPathIgnored(vault[d].parent, rules)
    /\ cache[d].has
    /\ DOMAIN CollectUrls(cache[d].fm, PropertyNames(settings.sourcePropertyName)) # {}

\* the loop from file j on, run until it suspends at an await or ends
RECURSIVE Scan(_, _, _, _)
Scan(files, j, rules, acc) ==
    IF j > Len(files) THEN [done |-> TRUE, acc |-> acc]
    ELSE IF FileQualifies(files[j], rules)
         THEN [done  |-> FALSE,
               files |-> files,
               rules |-> rules,
               i     |-> j,
               meta  |-> cache[files[j]],
               urls  |-> CollectUrls(cache[files[j]].fm,
                                     PropertyNames(settings.sourcePropertyName)),
               read  |-> ReadFlag(cache[files[j]].fm, settings.readPropertyName),
               acc   |-> acc]
         ELSE Scan(files, j + 1, rules, acc)

\* the end of a pass: setArticles(articleFiles), then the finally block
FinishPassMutFirstWins(acc) ==
    /\ articles' = IF articles = <<>> THEN acc ELSE articles
    /\ isRefreshing' = FALSE
    /\ isLoading' = FALSE

FinishPass(acc) ==
    /\ articles' = acc
    /\ isRefreshing' = FALSE
    /\ isLoading' = FALSE

RemoveAt(seq, k) == SubSeq(seq, 1, k - 1) \o SubSeq(seq, k + 1, Len(seq))

\* n calls of loadArticles() from one synchronous stretch (an effect run, an event
\* handler, the interval callback): setIsRefreshing(true), setError(null), then the
\* loop up to its first await; with no qualifying file the call runs to its end
LoadArticlesWith(n, rules) ==
    /\ error' = ""
    /\ LET r == Scan(DocOrder, 1, rules, <<>>)
       IN  IF r.done
           THEN FinishPass(r.acc) /\ passes' = passes
           ELSE /\ Len(passes) + n <= MaxPasses
                /\ passes' = passes \o [k \in 1..n |-> r]
                /\ isRefreshing' = TRUE
                /\ UNCHANGED <<articles, isLoading>>

\* the calls close over the rule list of the render that created loadArticles
LoadArticles(n) == LoadArticlesWith(n, ignoredDirectories)

\* a pass resumes at i + 1 with the records it holds
ResumeMutPartial(k, acc) ==
    LET p == passes[k]
        r == Scan(p.files, p.i + 1, p.rules, acc)
    IN  IF r.done
        THEN FinishPass(r.acc) /\ passes' = RemoveAt(passes, k)
        ELSE /\ passes' = [passes EXCEPT ![k] = r]
             /\ articles' = r.acc
             /\ UNCHANGED <<isRefreshing, isLoading>>

Resume(k, acc) ==
    LET p == passes[k]
        r == Scan(p.files, p.i + 1, p.rules, acc)
    IN  IF r.done
        THEN FinishPass(r.acc) /\ passes' = RemoveAt(passes, k)
        ELSE /\ passes' = [passes EXCEPT ![k] = r]
             /\ UNCHANGED <<articles, isRefreshing, isLoading>>

\* await app.vault.read(file) resolves: the tags are normalized and the record pushed;
\* a TypeError thrown by the normalizer is caught and the file skipped
PassReadResolve(k) ==
    /\ k \in 1..Len(passes)
    /\ LET p  == passes[k]
           d  == p.files[p.i]
           ft == processFrontmatterTags(p.meta.fm, settings.includeFrontmatterTags)
           ct == processContentTags(p.meta.tags)
       IN  Resume(k, IF ft.threw THEN p.acc
                     ELSE Append(p.acc, Article(d, p.meta, p.urls, p.read,
                                                Content(vault[d]), ft.tags, ct)))
    /\ UNCHANGED <<view, vault, cache, settings, isExpanded, otherView, ignoredDirectories, error, searchTerm,
                   sortConfig, hideCompleted, showOnlyCompleted, mounted, ops, nEdits, nClicks, nTicks>>

\* await app.vault.read(file) rejects: the inner catch logs and the loop goes on
PassReadReject(k) ==
    /\ k \in 1..Len(passes)
    /\ Resume(k, passes[k].acc)
    /\ UNCHANGED <<view, vault, cache, settings, isExpanded, otherView, ignoredDirectories, error, searchTerm,
                   sortConfig, hideCompleted, showOnlyCompleted, mounted, ops, nEdits, nClicks, nTicks>>

\* interval ticks and refresh clicks in one run
MaxTicks == 1

\* the component mounts: the effect that registers the vault handlers and the
\* "initial load" effect each call loadArticles()
Mount ==
    /\ ~mounted
    /\ mounted' = TRUE
    /\ LoadArticles(2)
    /\ UNCHANGED <<view, vault, cache, settings, isExpanded, otherView, ignoredDirectories, searchTerm, sortConfig,
                   hideCompleted, showOnlyCompleted, ops, nEdits, nClicks, nTicks>>

\* the 60 s interval callback, or a click on the refresh link
RefreshMutTwice ==
    /\ mounted
    /\ nTicks < MaxTicks
    /\ nTicks' = nTicks + 1
    /\ LoadArticles(2)
    /\ UNCHANGED <<view, vault, cache, settings, isExpanded, otherView, ignoredDirectories,
                   searchTerm, sortConfig, hideCompleted, showOnlyCompleted, mounted,
                   ops, nEdits, nClicks>>

Refresh ==
    /\ mounted
    /\ nTicks < MaxTicks
    /\ nTicks' = nTicks + 1
    /\ LoadArticles(1)
    /\ UNCHANGED <<view, vault, cache, settings, isExpanded, otherView, ignoredDirectories, searchTerm, sortConfig,
                   hideCompleted, showOnlyCompleted, mounted, ops, nEdits, nClicks>>

-----------------------------------------------------------------------------
(* The derived view: sortedArticles, filteredArticles *)

\* the collation rank of a character (punctuation, then digits, then letters)
CharRank(c) ==
    CASE c = " "  -> 0
      [] c = ","  -> 1
      [] c = ":"  -> 2
      [] c = "."  -> 3
      [] c = "/"  -> 4
      [] c = "\\" -> 5
      [] c = "#"  -> 6
      [] c = "a"  -> 10
      [] c = "b"  -> 11
      [] OTHER    -> 12

\* a.localeCompare(b): negative, zero or positive
RECURSIVE LocaleCompare(_, _)
LocaleCompare(a, b) ==
    IF a = <<>> /\ b = <<>> THEN 0
    ELSE IF a = <<>> THEN -1
    ELSE IF b = <<>> THEN 1
    ELSE IF CharRank(a[1]) # CharRank(b[1]) THEN CharRank(a[1]) - CharRank(b[1])
    ELSE LocaleCompare(Tail(a), Tail(b))

\* the comparator given to sort
Compare(a, b) ==
    IF sortConfig.key = "date"
    THEN IF sortConfig.direction = "asc" THEN a.date - b.date ELSE b.date - a.date
    ELSE IF sortConfig.key = "read"
    THEN IF sortConfig.direction = "asc"
         THEN (IF a.read = b.read THEN 0 ELSE IF a.read THEN -1 ELSE 1)
         ELSE (IF a.read = b.read THEN 0 ELSE IF a.read THEN 1 ELSE -1)
    ELSE LET aValue == ToLowerCase(a[sortConfig.key])
             bValue == ToLowerCase(b[sortConfig.key])
         IN  IF sortConfig.direction = "asc" THEN LocaleCompare(aValue, bValue)
             ELSE LocaleCompare(bValue, aValue)

\* Array.prototype.sort is stable: x goes behind every element that does not
\* compare greater than it
InsertMutUnstable(sorted, x) ==
    LET after == {i \in 1..Len(sorted) : Compare(sorted[i], x) < 0}
        k     == IF after = {} THEN 0 ELSE CHOOSE i \in after : \A j \in after : j <= i
    IN  SubSeq(sorted, 1, k) \o <<x>> \o SubSeq(sorted, k + 1, Len(sorted))

Insert(sorted, x) ==
    LET after == {i \in 1..Len(sorted) : Compare(sorted[i], x) <= 0}
        k     == IF after = {} THEN 0 ELSE CHOOSE i \in after : \A j \in after : j <= i
    IN  SubSeq(sorted, 1, k) \o <<x>> \o SubSeq(sorted, k + 1, Len(sorted))

RECURSIVE SortFrom(_, _)
SortFrom(sorted, rest) ==
    IF rest = <<>> THEN sorted ELSE SortFrom(Insert(sorted, Head(rest)), Tail(rest))

sortedArticles == SortFrom(<<>>, articles)

\* the search part of the filter callback
MatchesSearchMutSubstring(article, term) ==
    \/ Includes(ToLowerCase(article.title), ToLowerCase(term))
    \/ \E i \in 1..Len(article.tags) :
           Includes(ToLowerCase(article.tags[i]), ToLowerCase(term))
    \/ /\ StartsWith(term, <<"#">>)
       /\ \E i \in 1..Len(article.tags) :
              Includes(ToLowerCase(article.tags[i]), ToLowerCase(Tail(term)))

MatchesSearch(article, term) ==
    \/ Includes(ToLowerCase(article.title), ToLowerCase(term))
    \/ \E i \in 1..Len(article.tags) :
           Includes(ToLowerCase(article.tags[i]), ToLowerCase(term))
    \/ /\ StartsWith(term, <<"#">>)
       /\ \E i \in 1..Len(article.tags) :
              ToLowerCase(article.tags[i]) = ToLowerCase(Tail(term))

\* the filter callback
PassesFilterMutNoHide(article) ==
    IF showOnlyCompleted /\ ~article.read THEN FALSE
    ELSE MatchesSearch(article, searchTerm)

PassesFilter(article) ==
    IF hideCompleted /\ article.read THEN FALSE
    ELSE IF showOnlyCompleted /\ ~article.read THEN FALSE
    ELSE MatchesSearch(article, searchTerm)

filteredArticles == SelectSeq(sortedArticles, PassesFilter)

\* the search box: onChange={(e) => setSearchTerm(e.target.value)}
SetSearchTerm(term) ==
    /\ mounted /\ error = "" /\ ~isLoading
    /\ searchTerm' = term
    /\ UNCHANGED <<view, vault, cache, settings, isExpanded, otherView, ignoredDirectories, articles, isLoading,
                   isRefreshing, error, sortConfig, hideCompleted, showOnlyCompleted,
                   mounted, passes, ops, nEdits, nClicks, nTicks>>

-----------------------------------------------------------------------------
(* The read checkbox: onChange *)

\* checkbox handlers that may be suspended at once
MaxOps == 1

\* checkbox clicks in one run
MaxClicks == 2

\* front-matter blocks a file may pile up (the second and later ones are body text)
MaxBlocks == 2

\* prev.map(a => a.path === article.path ? {...a, read: value} : a)
WithRead(prev, path, value) ==
    [i \in 1..Len(prev) |->
        IF prev[i].path = path THEN [prev[i] EXCEPT !.read = value] ELSE prev[i]]

\* the catch block: the record is set to the opposite of what the click asked for
RevertMutKeep(prev, op) == prev

Revert(prev, op) == WithRead(prev, op.path, ~op.isChecked)

NoContent == [blocks |-> <<>>, body |-> [text |-> <<>>, tags |-> <<>>]]

\* a click on the checkbox of row j: the record is updated at once, the cache is asked
\* for the file's metadata, and the handler suspends at await app.vault.read(file)
Click(j) ==
    /\ mounted /\ error = "" /\ ~isLoading
    /\ settings.readPropertyName # <<>>
    /\ Len(ops) < MaxOps
    /\ nClicks < MaxClicks
    /\ nClicks' = nClicks + 1
    /\ j \in 1..Len(filteredArticles)
    /\ LET article   == filteredArticles[j]
           isChecked == ~(article.read = TRUE)
       IN  /\ FilesByPath(article.path) # {}
           /\ LET file == CHOOSE d \in FilesByPath(article.path) : TRUE
              IN  /\ articles' = WithRead(articles, article.path, isChecked)
                  /\ ops' = Append(ops, [file           |-> file,
                                         path           |-> article.path,
                                         isChecked      |-> isChecked,
                                         before         |-> article.read,
                                         hasFrontmatter |-> cache[file].has,
                                         pc             |-> "read",
                                         content        |-> NoContent])
    /\ UNCHANGED <<view, vault, cache, settings, isExpanded, otherView, ignoredDirectories, isLoading, isRefreshing,
                   error, searchTerm, sortConfig, hideCompleted, showOnlyCompleted,
                   mounted, passes, nEdits, nTicks>>

\* await app.vault.read(file) resolves: vault.modify or processFrontMatter is called
ReadResolve(k) ==
    /\ k \in 1..Len(ops) /\ ops[k].pc = "read"
    /\ ops' = [ops EXCEPT ![k].pc = "write",
                          ![k].content = Content(vault[ops[k].file])]
    /\ UNCHANGED <<view, vault, cache, settings, isExpanded, otherView, ignoredDirectories, articles, isLoading,
                   isRefreshing, error, searchTerm, sortConfig, hideCompleted,
                   showOnlyCompleted, mounted, passes, nEdits, nClicks, nTicks>>

\* the read or the write rejects: the catch block runs
Reject(k) ==
    /\ k \in 1..Len(ops)
    /\ articles' = Revert(articles, ops[k])
    /\ ops' = RemoveAt(ops, k)
    /\ UNCHANGED <<view, vault, cache, settings, isExpanded, otherView, ignoredDirectories, isLoading, isRefreshing,
                   error, searchTerm, sortConfig, hideCompleted, showOnlyCompleted,
                   mounted, passes, nEdits, nClicks, nTicks>>

\* the file the write leaves: without cached front-matter the text read earlier with a
\* new block in front of it, otherwise the file's text with the property set in its
\* front-matter (processFrontMatter creates the block when the file has none)
Written(doc, op, readPropertyName) ==
    IF ~op.hasFrontmatter
    THEN [doc EXCEPT !.blocks = <<ReadBlock(readPropertyName, op.isChecked)>>
                                    \o op.content.blocks,
                     !.body   = op.content.body]
    ELSE IF doc.blocks = <<>>
         THEN [doc EXCEPT !.blocks = <<ReadBlock(readPropertyName, op.isChecked)>>]
         ELSE [doc EXCEPT !.blocks =
                   <<SetReadProperty(Head(doc.blocks), readPropertyName, op.isChecked)>>
                       \o Tail(doc.blocks)]

\* the write lands; the vault's modify event calls loadArticles()
WriteResolve(k) ==
    /\ k \in 1..Len(ops) /\ ops[k].pc = "write"
    /\ Len(Written(vault[ops[k].file], ops[k], settings.readPropertyName).blocks)
           <= MaxBlocks
    /\ vault' = [vault EXCEPT ![ops[k].file] =
                     Written(vault[ops[k].file], ops[k], settings.readPropertyName)]
    /\ ops' = RemoveAt(ops, k)
    /\ LoadArticles(1)
    /\ UNCHANGED <<view, cache, settings, isExpanded, otherView, ignoredDirectories, searchTerm, sortConfig,
                   hideCompleted, showOnlyCompleted, mounted, nEdits, nClicks, nTicks>>

-----------------------------------------------------------------------------
(* The environment: edits made outside the catalog, and the cache's indexer *)

\* edits made outside the catalog in one run
MaxEdits == 1

\* a file's front-matter is rewritten outside the catalog; the vault's modify event
\* calls loadArticles()
ExternalEdit(d, blocks) ==
    /\ mounted
    /\ nEdits < MaxEdits
    /\ blocks # vault[d].blocks
    /\ vault' = [vault EXCEPT ![d].blocks = blocks]
    /\ nEdits' = nEdits + 1
    /\ LoadArticles(1)
    /\ UNCHANGED <<view, cache, settings, isExpanded, otherView, ignoredDirectories, searchTerm, sortConfig,
                   hideCompleted, showOnlyCompleted, mounted, ops, nClicks, nTicks>>

\* the metadata cache catches up with a file
CacheIndex(d) ==
    /\ cache[d] # ParseDoc(vault[d])
    /\ cache' = [cache EXCEPT ![d] = ParseDoc(vault[d])]
    /\ UNCHANGED <<view, vault, settings, isExpanded, otherView, ignoredDirectories, articles, isLoading,
                   isRefreshing, error, searchTerm, sortConfig, hideCompleted,
                   showOnlyCompleted, mounted, passes, ops, nEdits, nClicks, nTicks>>

-----------------------------------------------------------------------------
(* Initial states *)

\* plugin.settings as configured for the runs: one source property, a read property
ConfiguredSettings ==
    [sourcePropertyName         |-> <<"s">>,
     readPropertyName           |-> <<"r">>,
     includeFrontmatterTags     |-> TRUE,
     ignoredDirectories         |-> <<>>,
     isAdvancedSettingsExpanded |-> FALSE]

\* no second catalog view is open
NoView == [open |-> FALSE, ignoredDirectories |-> <<>>, isExpanded |-> FALSE]

\* what onOpen leaves: a root that renders the catalog inside the error boundary,
\* and no root left behind
Rendered == [root |-> "boundary", orphans |-> 0]

\* the useState initial values
InitialValues ==
    /\ articles = <<>>
    /\ isLoading = TRUE
    /\ isRefreshing = FALSE
    /\ error = ""
    /\ searchTerm = <<>>
    /\ sortConfig = [key |-> "date", direction |-> "desc"]
    /\ hideCompleted = FALSE
    /\ showOnlyCompleted = FALSE
    /\ mounted = FALSE
    /\ passes = <<>>
    /\ ops = <<>>
    /\ nEdits = 0
    /\ nClicks = 0
    /\ nTicks = 0
    /\ isExpanded = FALSE
    /\ otherView = NoView

\* the view after onOpen, its component before its effects run
Unmounted == InitialValues /\ view = Rendered

Root == <<"/">>

NoBody == [text |-> <<>>, tags |-> <<>>]

Doc(parent, basename, ctime, blocks, body) ==
    [parent |-> parent, basename |-> basename, ctime |-> ctime,
     blocks |-> blocks, body |-> body]

\* a front-matter holding a source URL alone
FmSource == [k \in {<<"s">>} |-> Str(<<"a", ":">>)]

\* a file with no front-matter in the vault's root
PlainDoc == Doc(Root, <<"b">>, 2, <<>>, NoBody)

-----------------------------------------------------------------------------
(* Path exclusion over bounded paths and rules *)

\* folder paths have at most this many names
MaxPathSegs == 3

\* exclusion rules have at most this many characters
MaxRuleLen == 3

FolderNames == {<<"a">>, <<"A">>, <<"b">>}

\* folder paths as the vault reports them: names joined by '/', no leading or trailing
\* separator; a name may hold a backslash
RECURSIVE FolderPaths(_)
FolderPaths(n) ==
    IF n = 1 THEN FolderNames
    ELSE LET P == FolderPaths(n - 1)
         IN  P \cup {p \o <<sep>> \o nm : p \in P, sep \in {"/", "\\"}, nm \in FolderNames}

WorkExpenses == <<"w","o","r","k","/","e","x","p","e","n","s","e","s">>

WorkExpenses2024 == WorkExpenses \o <<"/","2","0","2","4">>

ParentPaths == FolderPaths(MaxPathSegs) \cup {Root, WorkExpenses, WorkExpenses2024}

\* rules as typed into the exclusion box: non-empty, with no comma and no outer space
Rules == StringsUpTo({"a", "A", "/", "\\"}, MaxRuleLen) \ {<<>>}

ShortRules == {<<"a">>, <<"b">>, <<"a", "/", "b">>}

RuleLists ==
    {<<>>, <<WorkExpenses>>} \cup {<<r>> : r \in Rules}
        \cup {<<q, r>> : q \in ShortRules, r \in ShortRules}

InitPath ==
    /\ Unmounted
    /\ ignoredDirectories \in RuleLists
    /\ settings = [ConfiguredSettings EXCEPT !.ignoredDirectories = ignoredDirectories]
    /\ \E p \in ParentPaths :
           vault = [d \in Docs |-> IF d = "d1"
                                   THEN Doc(p, <<"a">>, 1, <<FmSource>>, NoBody)
                                   ELSE PlainDoc]
    /\ cache = [d \in Docs |-> ParseDoc(vault[d])]

\* the first passes over the vault, every read resolving
NextPath ==
    \/ Mount
    \/ \E k \in 1..MaxPasses : PassReadResolve(k)

SpecPath == InitPath /\ [][NextPath]_vars

\* the number of '/'-separated segments of s, and its i-th segment
SlashCount(s) == Cardinality({i \in 1..Len(s) : s[i] = "/"})

SegCount(s) == SlashCount(s) + 1

Segment(s, i) ==
    LET slashes == {j \in 1..Len(s) : s[j] = "/"}
        before(j) == Cardinality({x \in slashes : x < j})
    IN  SelectSeq([j \in 1..Len(s) |-> IF s[j] # "/" /\ before(j) = i - 1
                                        THEN s[j] ELSE "/"],
                  LAMBDA c : c # "/")

\* the rule matches the path, as the algorithm is described
RuleCovers(rule, path) ==
    LET r0 == BackslashesToSlashes(rule)
        r  == IF Len(r0) > 0 /\ r0[Len(r0)] = "/" THEN SubSeq(r0, 1, Len(r0) - 1) ELSE r0
        p  == BackslashesToSlashes(path)
    IN  /\ SegCount(p) \in {SegCount(r), SegCount(r) + 1}
        /\ \A i \in 1..SegCount(r) :
               ToLowerCase(Segment(r, i)) = ToLowerCase(Segment(p, i))

\* the passes started at mount are over
FirstPassesDone == mounted /\ passes = <<>>

Listed(d) == \E i \in 1..Len(articles) : articles[i].path = FilePath(vault[d])

NormalizedRule(rule) == StripTrailingSlash(BackslashesToSlashes(rule))

\* C3: with the single rule "work/expenses" a document whose parent is work/expenses
\* is excluded and one whose parent is work/expenses/2024 is listed; in general a
\* document below a rule's directory is excluded only when a rule names its parent
\* directory itself, never by a rule for a directory further up
C3_TwoLevelsBelow ==
    FirstPassesDone =>
        /\ (ignoredDirectories = <<WorkExpenses>> /\ vault["d1"].parent = WorkExpenses)
               => ~Listed("d1")
        /\ (ignoredDirectories = <<WorkExpenses>> /\ vault["d1"].parent = WorkExpenses2024)
               => Listed("d1")
        /\ ~Listed("d1") =>
               \E k \in 1..Len(ignoredDirectories) :
                   /\ RuleCovers(ignoredDirectories[k], vault["d1"].parent)
                   /\ SegCount(BackslashesToSlashes(vault["d1"].parent))
                          = SegCount(NormalizedRule(ignoredDirectories[k]))

-----------------------------------------------------------------------------
(* Extraction over bounded front-matter *)

\* scalar strings in front-matter have at most this many characters
MaxValueLen == 2

\* list values have at most this many entries
MaxListLen == 2

\* the source-property setting has at most this many characters
MaxSettingLen == 3

ScalarStrings ==
    {Str(s) : s \in StringsUpTo({" ", "a", ":"}, MaxValueLen)} \cup {Str(<<"t", "r", "u", "e">>)}

ListItems == {Str(<<>>), Str(<<" ">>), Str(<<"a">>), Str(<<"a", ":">>), Num(1)}

RECURSIVE ListsUpTo(_)
ListsUpTo(n) ==
    IF n = 0 THEN {<<>>}
    ELSE LET L == ListsUpTo(n - 1)
         IN  L \cup {Append(l, x) : l \in L, x \in ListItems}

\* what a front-matter key may hold; Undef is a missing key
Values ==
    ScalarStrings \cup {Lst(l) : l \in ListsUpTo(MaxListLen)}
        \cup {Bool(TRUE), Bool(FALSE), Num(0), Num(1), Undef}

SecondValues == {Undef, Str(<<" ">>), Str(<<"a">>), Lst(<<Str(<<" ">>)>>)}

\* the front-matter with the keys of f that hold a value
MkFm(f) == [k \in {x \in DOMAIN f : f[x] # Undef} |-> f[k]]

SourceSettings == StringsUpTo({"s", "u", ",", " "}, MaxSettingLen)

\* d1 with front-matter blocks, beside the plain d2, the cache up to date
VaultWith(blocks) ==
    /\ vault = [d \in Docs |-> IF d = "d1" THEN Doc(Root, <<"a">>, 1, blocks, NoBody)
                               ELSE PlainDoc]
    /\ cache = [d \in Docs |-> ParseDoc(vault[d])]

\* the source properties vary
InitUrls ==
    /\ \E name \in SourceSettings :
           settings = [ConfiguredSettings EXCEPT !.sourcePropertyName = name]
    /\ \/ VaultWith(<<>>)
       \/ \E sv \in Values, uv \in SecondValues :
              VaultWith(<<MkFm([k \in {<<"s">>, <<"u">>} |->
                                   IF k = <<"s">> THEN sv ELSE uv])>>)

\* the read property varies, under a read-property name that is set or empty
InitReadFlag ==
    /\ \E name \in {<<>>, <<"r">>} :
           settings = [ConfiguredSettings EXCEPT !.readPropertyName = name]
    /\ \E rv \in Values, ev \in Values :
           VaultWith(<<MkFm([k \in {<<"s">>, <<"r">>, <<>>} |->
                                IF k = <<"s">> THEN Str(<<"a", ":">>)
                                ELSE IF k = <<"r">> THEN rv ELSE ev])>>)

InitExtract ==
    /\ Unmounted
    /\ ignoredDirectories = <<>>
    /\ InitUrls \/ InitReadFlag

SpecExtract == InitExtract /\ [][NextPath]_vars

\* the record of document d in the snapshot
RecordOf(d) ==
    articles[CHOOSE i \in 1..Len(articles) : articles[i].path = FilePath(vault[d])]

\* the configured source-property names: the parts of the setting between commas,
\* without their outer spaces, the empty ones dropped
ConfiguredNames ==
    LET parts == Split(settings.sourcePropertyName, ",")
    IN  {Trim(parts[i]) : i \in 1..Len(parts)} \ {<<>>}

AllSpaces(s) == \A i \in 1..Len(s) : s[i] = " "

\* a value the claim calls blank: missing, a whitespace-only string, or a list whose
\* entries are all blank or non-string
BlankValue(v) ==
    \/ v.t = "undef"
    \/ v.t = "str" /\ AllSpaces(v.s)
    \/ v.t = "list" /\ \A i \in 1..Len(v.l) : v.l[i].t # "str" \/ AllSpaces(v.l[i].s)

\* C1: a document with no front-matter, without any configured source property, or
\* with only blank values under the configured source properties, has no record
\* after a pass
C1_BlankNoRecord ==
    FirstPassesDone =>
        ((\/ vault["d1"].blocks = <<>>
          \/ \A n \in ConfiguredNames : BlankValue(Get(Head(vault["d1"].blocks), n)))
            => ~Listed("d1"))

\* the entries of list l at the indices in I, in their order
RECURSIVE Pick(_, _)
Pick(l, I) ==
    IF I = {} THEN <<>>
    ELSE LET m == CHOOSE i \in I : \A j \in I : j <= i
         IN  Append(Pick(l, I \ {m}), l[m])

\* the entries of a list value that are strings with a character other than a space
Survivors(v) ==
    Pick(v.l, {i \in 1..Len(v.l) :
                   v.l[i].t = "str" /\ \E j \in 1..Len(v.l[i].s) : v.l[i].s[j] # " "})

\* C4: under every configured name, a list value is stored as the list of its
\* non-blank string entries in their order, and only if one survives; a non-empty
\* scalar string is stored as it is, whether or not it is a valid URL
C4_UrlsKept ==
    (FirstPassesDone /\ vault["d1"].blocks # <<>>) =>
        \A n \in ConfiguredNames :
            LET v == Get(Head(vault["d1"].blocks), n)
            IN  /\ v.t = "list" =>
                    /\ Survivors(v) # <<>> =>
                           Listed("d1") /\ n \in DOMAIN RecordOf("d1").urls
                               /\ RecordOf("d1").urls[n] = Lst(Survivors(v))
                    /\ Survivors(v) = <<>> =>
                           ~(Listed("d1") /\ n \in DOMAIN RecordOf("d1").urls)
                /\ (v.t = "str" /\ v.s # <<>>) =>
                       Listed("d1") /\ n \in DOMAIN RecordOf("d1").urls
                           /\ RecordOf("d1").urls[n] = v

\* C4 witness: a record whose only source value is a string that is no valid URL
C4_Witness ==
    /\ FirstPassesDone /\ Listed("d1")
    /\ DOMAIN RecordOf("d1").urls = {<<"s">>}
    /\ RecordOf("d1").urls[<<"s">>] = Str(<<"a">>)
    /\ ~isValidUrl(RecordOf("d1").urls[<<"s">>])

\* C6: a record's read flag is true exactly when the read-property name is not empty
\* and the front-matter holds the boolean true under it
C6_ReadFlagStrict ==
    (FirstPassesDone /\ Listed("d1")) =>
        (RecordOf("d1").read <=>
            /\ settings.readPropertyName # <<>>
            /\ settings.readPropertyName \in DOMAIN Head(vault["d1"].blocks)
            /\ Head(vault["d1"].blocks)[settings.readPropertyName].t = "bool"
            /\ Head(vault["d1"].blocks)[settings.readPropertyName].b)

-----------------------------------------------------------------------------
(* The catalog over a vault of two documents *)

\* d1: a source list with a blank entry, and a field the catalog does not read
Fm1 ==
    [k \in {<<"s">>, <<"o">>} |->
        IF k = <<"s">> THEN Lst(<<Str(<<" ">>), Str(<<"a", ":">>)>>) ELSE Str(<<"a">>)]

\* d2: a source URL, already read
Fm2 ==
    [k \in {<<"s">>, <<"r">>} |-> IF k = <<"s">> THEN Str(<<"a", ":">>) ELSE Bool(TRUE)]

\* what an edit made outside the catalog may leave as a file's front-matter
EditBlocks == {<<>>, <<FmSource>>}

\* the files edited outside the catalog
EditedDocs == {"d1"}

Init ==
    /\ Unmounted
    /\ settings = ConfiguredSettings
    /\ ignoredDirectories = <<>>
    /\ vault = [d \in Docs |-> IF d = "d1" THEN Doc(<<"a">>, <<"a">>, 1, <<Fm1>>, NoBody)
                               ELSE Doc(Root, <<"b">>, 2, <<Fm2>>, NoBody)]
    /\ cache = [d \in Docs |-> ParseDoc(vault[d])]

Next ==
    \/ Mount
    \/ Refresh
    \/ \E k \in 1..MaxPasses : PassReadResolve(k)
    \/ \E k \in 1..MaxPasses : PassReadReject(k)
    \/ \E j \in 1..Cardinality(Docs) : Click(j)
    \/ \E k \in 1..MaxOps : ReadResolve(k)
    \/ \E k \in 1..MaxOps : Reject(k)
    \/ \E k \in 1..MaxOps : WriteResolve(k)
    \/ \E d \in EditedDocs, blocks \in EditBlocks : ExternalEdit(d, blocks)
    \/ \E d \in Docs : CacheIndex(d)

Spec == Init /\ [][Next]_vars

\* C5: in every snapshot every record has a source value, and every list among a
\* record's source values is a non-empty list of strings that are not blank
C5_UrlsNeverEmpty ==
    \A i \in 1..Len(articles) :
        /\ DOMAIN articles[i].urls # {}
        /\ \A n \in DOMAIN articles[i].urls :
               articles[i].urls[n].t = "list" =>
                   /\ articles[i].urls[n].l # <<>>
                   /\ \A j \in 1..Len(articles[i].urls[n].l) :
                          /\ articles[i].urls[n].l[j].t = "str"
                          /\ ~AllSpaces(articles[i].urls[n].l[j].s)

\* C5 witness: after a toggle was written, a record taken from a source list that
\* held a blank entry
C5_Witness ==
    /\ nClicks > 0 /\ ops = <<>> /\ passes = <<>>
    /\ vault["d1"].blocks # <<>>
    /\ Get(Head(vault["d1"].blocks), settings.readPropertyName) = Bool(TRUE)
    /\ Get(Head(vault["d1"].blocks), <<"s">>) = Fm1[<<"s">>]
    /\ Listed("d1")
    /\ RecordOf("d1").urls[<<"s">>] = Lst(<<Str(<<"a", ":">>)>>)

\* the records of prev with the read flag of those at path set to value, nothing else
\* changed
OnlyReadSet(prev, next, path, value) ==
    /\ Len(next) = Len(prev)
    /\ \A i \in 1..Len(prev) :
           next[i] = IF prev[i].path = path THEN [prev[i] EXCEPT !.read = value]
                     ELSE prev[i]

\* C7: a click sets the record's read flag to the new value and writes nothing yet;
\* when the read or the write fails, the record's read flag is back at the value it
\* had before the click, every other record and field is as it was, and no error is
\* set
C7_RevertOnFailure ==
    [][/\ nClicks' # nClicks =>
              /\ vault' = vault
              /\ OnlyReadSet(articles, articles', ops'[Len(ops')].path,
                             ops'[Len(ops')].isChecked)
       /\ \A k \in 1..Len(ops) :
              Reject(k) =>
                  /\ OnlyReadSet(articles, articles', ops[k].path, ops[k].before)
                  /\ error' = error
                  /\ vault' = vault]_vars

\* C7 witness: one click, no write: the toggle failed and the record is unread again
C7_Witness ==
    /\ nClicks = 1 /\ ops = <<>> /\ nEdits = 0
    /\ Get(Head(vault["d1"].blocks), settings.readPropertyName) = Undef
    /\ Get(Head(vault["d2"].blocks), settings.readPropertyName) = Bool(TRUE)
    /\ Listed("d1") /\ ~RecordOf("d1").read
    /\ Listed("d2") /\ RecordOf("d2").read

\* the file with the read property set as the claims describe: a block holding the
\* property alone in front of a file without front-matter, the property set in place
\* otherwise
WithReadProperty(doc, readPropertyName, value) ==
    IF doc.blocks = <<>>
    THEN [doc EXCEPT !.blocks = <<ReadBlock(readPropertyName, value)>>]
    ELSE [doc EXCEPT !.blocks =
              <<SetReadProperty(Head(doc.blocks), readPropertyName, value)>>
                  \o Tail(doc.blocks)]

\* C8: a click changes only the read flag of the clicked record; a write that lands
\* changes only the clicked record's file, and in it only the read property: a block
\* with the property alone is put in front of a file that has no front-matter, the
\* property is set in place in a file that has one
C8_WriteFrame ==
    [][/\ nClicks' # nClicks =>
              OnlyReadSet(articles, articles', ops'[Len(ops')].path,
                          ops'[Len(ops')].isChecked)
       /\ \A k \in 1..Len(ops) :
              WriteResolve(k) =>
                  vault' = [vault EXCEPT ![ops[k].file] =
                                WithReadProperty(vault[ops[k].file],
                                                 settings.readPropertyName,
                                                 ops[k].isChecked)]]_vars

\* C9: a write that toggles back a file whose front-matter holds the read property,
\* as a first toggle leaves it, changes the property's value and nothing else; the
\* file keeps the number of blocks it had
C9_RoundTrip ==
    [][\A k \in 1..Len(ops) :
           (/\ WriteResolve(k)
            /\ vault[ops[k].file].blocks # <<>>
            /\ Get(Head(vault[ops[k].file].blocks), settings.readPropertyName)
                   = Bool(~ops[k].isChecked))
               => /\ Len(vault'[ops[k].file].blocks) = Len(vault[ops[k].file].blocks)
                  /\ vault'[ops[k].file] =
                         [vault[ops[k].file] EXCEPT !.blocks =
                              <<SetReadProperty(Head(vault[ops[k].file].blocks),
                                                settings.readPropertyName,
                                                ops[k].isChecked)>>
                                  \o Tail(vault[ops[k].file].blocks)]]_vars

-----------------------------------------------------------------------------
(* Search over bounded titles, tags and terms *)

\* search terms have at most this many characters
MaxTermLen == 2

\* front-matter tags have at most this many characters
MaxTagLen == 3

Titles == {<<"A">>, <<"a", "b">>, <<"b", "#", "a">>}

TagStrings == StringsUpTo({"#", "a", "A", "b"}, MaxTagLen) \ {<<>>}

ShortTags == {<<"a">>, <<"a", "b">>, <<"#", "#", "a">>}

\* the tags property of d1: missing, or a list of one or two strings
TagValues ==
    {Undef} \cup {Lst(<<Str(t)>>) : t \in TagStrings}
        \cup {Lst(<<Str(t), Str(u)>>) : t \in ShortTags, u \in ShortTags}

SearchTerms == StringsUpTo({"#", "a", "b"}, MaxTermLen)

InitSearch ==
    /\ Unmounted
    /\ settings = ConfiguredSettings
    /\ ignoredDirectories = <<>>
    /\ \E title \in Titles, tv \in TagValues :
           vault = [d \in Docs |->
                       IF d = "d1"
                       THEN Doc(Root, title, 1,
                                <<MkFm([k \in {<<"s">>, TagsKey} |->
                                           IF k = <<"s">> THEN Str(<<"a", ":">>) ELSE tv])>>,
                                NoBody)
                       ELSE PlainDoc]
    /\ cache = [d \in Docs |-> ParseDoc(vault[d])]

NextSearch ==
    \/ Mount
    \/ \E k \in 1..MaxPasses : PassReadResolve(k)
    \/ \E term \in SearchTerms : SetSearchTerm(term)

SpecSearch == InitSearch /\ [][NextSearch]_vars

\* the record is among the rows shown
Returned(article) == \E i \in 1..Len(filteredArticles) : filteredArticles[i] = article

\* the search term is '#' followed by a tag name
IsTagTerm(term) == Len(term) > 1 /\ term[1] = "#"

\* upper and lower case taken as equal
SameFolded(a, b) == ToLowerCase(a) = ToLowerCase(b)

\* s holds t somewhere, upper and lower case taken as equal
ContainsFolded(s, t) ==
    \E i \in 0..(Len(s) - Len(t)) : SameFolded(SubSeq(s, i + 1, i + Len(t)), t)

HasTagEqual(article, name) ==
    \E i \in 1..Len(article.tags) : SameFolded(article.tags[i], name)

\* C10 as stated: a search for '#' and a tag name returns only records that have
\* that tag, upper and lower case taken as equal
C10_TagTermExactOnly ==
    IsTagTerm(searchTerm) =>
        \A i \in 1..Len(articles) :
            Returned(articles[i]) => HasTagEqual(articles[i], Tail(searchTerm))

\* C10 amended: a search for '#' and a tag name returns exactly the records that have
\* that tag or whose title or some tag holds the whole term, '#' included, upper and
\* lower case taken as equal; a record with a longer tag alone is not returned
C10_TagTermExactOrText ==
    IsTagTerm(searchTerm) =>
        \A i \in 1..Len(articles) :
            Returned(articles[i]) <=>
                \/ HasTagEqual(articles[i], Tail(searchTerm))
                \/ ContainsFolded(articles[i].title, searchTerm)
                \/ \E j \in 1..Len(articles[i].tags) :
                       ContainsFolded(articles[i].tags[j], searchTerm)

\* C10 witness: the term "#a" against a record whose only tag is "ab": no row
C10_Witness ==
    /\ searchTerm = <<"#", "a">>
    /\ Len(articles) = 1
    /\ articles[1].tags = <<<<"a", "b">>>>
    /\ articles[1].title = <<"a", "b">>
    /\ filteredArticles = <<>>

-----------------------------------------------------------------------------
(* ArticleTitle and the search, over bounded names, headings and terms *)

Untitled == <<"U", "n", "t", "i", "t", "l", "e", "d">>

IsDigit(c) == c \in {"0", "1", "2", "3", "4", "5", "6", "7", "8", "9"}

\* /^Untitled( \d+)?$/.test(file.basename)
isUntitled(basename) ==
    \/ basename = Untitled
    \/ /\ Len(basename) > Len(Untitled) + 1
       /\ SubSeq(basename, 1, Len(Untitled)) = Untitled
       /\ basename[Len(Untitled) + 1] = " "
       /\ \A i \in (Len(Untitled) + 2)..Len(basename) : IsDigit(basename[i])

\* the length of the run of '#' a line starts with
RECURSIVE HashRun(_)
HashRun(line) == IF Len(line) > 0 /\ line[1] = "#" THEN 1 + HashRun(Tail(line)) ELSE 0

\* the line matches /^#+ (.+)$/
IsHeaderLine(line) ==
    /\ HashRun(line) >= 1
    /\ Len(line) >= HashRun(line) + 2
    /\ line[HashRun(line) + 1] = " "

\* content.match(/^#+ (.+)$/m): <<>> for null, otherwise <<group 1>> of the first
\* line that matches; the text is a sequence of lines
headerMatch(text) ==
    LET hits == {i \in 1..Len(text) : IsHeaderLine(text[i])}
    IN  IF hits = {} THEN <<>>
        ELSE LET i == CHOOSE h \in hits : \A g \in hits : h <= g
             IN  <<SubSeq(text[i], HashRun(text[i]) + 2, Len(text[i]))>>

\* the text ArticleTitle shows in its first span for a row of the table
ArticleTitle(article) ==
    IF FilesByPath(article.path) = {} THEN article.title
    ELSE LET file == CHOOSE d \in FilesByPath(article.path) : TRUE
         IN  IF isUntitled(vault[file].basename)
                    /\ headerMatch(article.content.body.text) # <<>>
             THEN Trim(headerMatch(article.content.body.text)[1])
             ELSE vault[file].basename

\* headings have at most this many characters after "# "
MaxHeadingLen == 2

Basenames == {Untitled, Untitled \o <<" ", "1">>, Untitled \o <<" ", "a">>, <<"a">>}

HeadingLines ==
    {<<"#", " ">> \o h : h \in StringsUpTo({"a", "B", " "}, MaxHeadingLen)}
        \cup {<<"#", "#", " ", "a">>, <<"#", "a">>, <<"a">>}

\* the body text of d1: no line, one line, or a plain line and a second line
BodyTexts ==
    {<<>>} \cup {<<l>> : l \in HeadingLines}
        \cup {<<<<"a">>, l>> : l \in HeadingLines}

TitleTerms == StringsUpTo({"a", "b", "u"}, MaxHeadingLen)

InitTitle ==
    /\ Unmounted
    /\ settings = ConfiguredSettings
    /\ ignoredDirectories = <<>>
    /\ \E name \in Basenames, text \in BodyTexts :
           vault = [d \in Docs |->
                       IF d = "d1"
                       THEN Doc(Root, name, 1, <<FmSource>>, [text |-> text, tags |-> <<>>])
                       ELSE PlainDoc]
    /\ cache = [d \in Docs |-> ParseDoc(vault[d])]

NextTitle ==
    \/ Mount
    \/ \E k \in 1..MaxPasses : PassReadResolve(k)
    \/ \E term \in TitleTerms : SetSearchTerm(term)

SpecTitle == InitTitle /\ [][NextTitle]_vars

\* C11: a record is returned when the search term is a substring, upper and lower
\* case taken as equal, of the title its row shows: the file's name, or the first
\* heading of its content when the name is an untitled placeholder
C11_SearchDisplayTitle ==
    \A i \in 1..Len(articles) :
        ContainsFolded(ArticleTitle(articles[i]), searchTerm) => Returned(articles[i])

-----------------------------------------------------------------------------
(* Sorting and filtering: handleSort, the two read-filter links *)

UnchangedBySort ==
    UNCHANGED <<view, vault, cache, settings, isExpanded, otherView, ignoredDirectories, articles, isLoading,
                isRefreshing, error, searchTerm, hideCompleted, showOnlyCompleted,
                mounted, passes, ops, nEdits, nClicks, nTicks>>

\* a click on a column header: handleSort(key)
handleSort(key) ==
    /\ mounted /\ error = "" /\ ~isLoading
    /\ key = "read" => settings.readPropertyName # <<>>
    /\ sortConfig' = [key       |-> key,
                      direction |-> IF sortConfig.key = key /\ sortConfig.direction = "asc"
                                    THEN "desc" ELSE "asc"]
    /\ UnchangedBySort

UnchangedByFilter ==
    UNCHANGED <<view, vault, cache, settings, isExpanded, otherView, ignoredDirectories, articles, isLoading,
                isRefreshing, error, searchTerm, sortConfig, mounted, passes, ops,
                nEdits, nClicks, nTicks>>

\* a click on the "Hide ... notes" link
HideCompletedClick ==
    /\ mounted /\ error = "" /\ ~isLoading
    /\ settings.readPropertyName # <<>>
    /\ hideCompleted' = ~hideCompleted
    /\ showOnlyCompleted' = IF showOnlyCompleted THEN FALSE ELSE showOnlyCompleted
    /\ UnchangedByFilter

\* what the "Show only ... notes" link leaves in hideCompleted
HideAfterShowOnlyClickMutKeep == hideCompleted

HideAfterShowOnlyClick == IF hideCompleted THEN FALSE ELSE hideCompleted

\* a click on the "Show only ... notes" link
ShowOnlyCompletedClick ==
    /\ mounted /\ error = "" /\ ~isLoading
    /\ settings.readPropertyName # <<>>
    /\ showOnlyCompleted' = ~showOnlyCompleted
    /\ hideCompleted' = HideAfterShowOnlyClick
    /\ UnchangedByFilter

SortKeys == {"title", "date", "path", "read"}

\* names and folders of the three files: two titles that differ in case only
ViewFiles ==
    {<<[parent |-> Root, basename |-> <<"a">>],
       [parent |-> <<"b">>, basename |-> <<"A">>],
       [parent |-> <<"a">>, basename |-> <<"a", "b">>]>>,
     <<[parent |-> <<"b">>, basename |-> <<"B">>],
       [parent |-> Root, basename |-> <<"a">>],
       [parent |-> <<"a">>, basename |-> <<"a">>]>>,
     <<[parent |-> <<"a">>, basename |-> <<"a", "b">>],
       [parent |-> <<"a">>, basename |-> <<"A">>],
       [parent |-> <<"A", "/", "b">>, basename |-> <<"a">>]>>}

ViewTerms == {<<>>, <<"a">>, <<"#", "a">>, <<"B">>}

\* front-matter with a source, a read property and tags
FmView(read, tags) ==
    MkFm([k \in {<<"s">>, <<"r">>, TagsKey} |->
             IF k = <<"s">> THEN Str(<<"a", ":">>)
             ELSE IF k = <<"r">> THEN read ELSE tags])

InitView ==
    /\ Unmounted
    /\ settings = ConfiguredSettings
    /\ ignoredDirectories = <<>>
    /\ \E f \in ViewFiles, t2 \in {1, 2}, r1 \in {Undef, Bool(TRUE)},
          r2 \in {Bool(FALSE), Bool(TRUE)}, r3 \in {Undef, Bool(TRUE)} :
           vault = [d \in {"d1", "d2", "d3"} |->
                       CASE d = "d1" -> Doc(f[1].parent, f[1].basename, 1,
                                            <<FmView(r1, Undef)>>, NoBody)
                         [] d = "d2" -> Doc(f[2].parent, f[2].basename, t2,
                                            <<FmView(r2, Lst(<<Str(<<"a">>)>>))>>, NoBody)
                         [] d = "d3" -> Doc(f[3].parent, f[3].basename, 2,
                                            <<FmView(r3, Lst(<<Str(<<"a", "b">>)>>))>>,
                                            NoBody)]
    /\ cache = [d \in DOMAIN vault |-> ParseDoc(vault[d])]

NextView ==
    \/ Mount
    \/ \E k \in 1..MaxPasses : PassReadResolve(k)
    \/ \E key \in SortKeys : handleSort(key)
    \/ HideCompletedClick
    \/ ShowOnlyCompletedClick
    \/ \E term \in ViewTerms : SetSearchTerm(term)

SpecView == InitView /\ [][NextView]_vars

\* the position of a record in a sequence of distinct records
PositionIn(seq, x) == CHOOSE i \in 1..Len(seq) : seq[i] = x

\* the record passes the read filter that is on and matches the search term
ShownByFilters(a) ==
    /\ ~(hideCompleted /\ a.read)
    /\ ~(showOnlyCompleted /\ ~a.read)
    /\ \/ ContainsFolded(a.title, searchTerm)
       \/ \E j \in 1..Len(a.tags) : ContainsFolded(a.tags[j], searchTerm)
       \/ /\ Len(searchTerm) > 0 /\ searchTerm[1] = "#"
          /\ HasTagEqual(a, Tail(searchTerm))

\* C12: the rows shown are exactly the records of the sorted snapshot that pass the
\* read filter and match the search, in the order of the sorted snapshot; with an
\* empty term and no read filter every record is shown
C12_ViewIsFilteredSorted ==
    /\ \A i \in 1..Len(filteredArticles) :
           /\ \E j \in 1..Len(sortedArticles) : sortedArticles[j] = filteredArticles[i]
           /\ ShownByFilters(filteredArticles[i])
    /\ \A j \in 1..Len(sortedArticles) :
           ShownByFilters(sortedArticles[j]) => Returned(sortedArticles[j])
    /\ \A i, k \in 1..Len(filteredArticles) :
           i < k => PositionIn(sortedArticles, filteredArticles[i])
                        < PositionIn(sortedArticles, filteredArticles[k])
    /\ (searchTerm = <<>> /\ ~hideCompleted /\ ~showOnlyCompleted)
           => Len(filteredArticles) = Len(articles)

\* C12 witness: "hide read" is on and a term is searched: a read record that matches
\* the term is dropped, an unread one that matches is shown
C12_Witness ==
    /\ hideCompleted /\ searchTerm = <<"a">>
    /\ Len(articles) = 3
    /\ filteredArticles # <<>>
    /\ \E i \in 1..Len(articles) :
           /\ articles[i].read
           /\ ContainsFolded(articles[i].title, searchTerm)
           /\ ~Returned(articles[i])
    /\ \E i \in 1..Len(articles) : ~ShownByFilters(articles[i]) /\ ~articles[i].read

\* a has to come before b under the sort key and direction in force
SortsBefore(a, b) ==
    LET asc == sortConfig.direction = "asc"
    IN  CASE sortConfig.key = "date" ->
                 IF asc THEN a.date < b.date ELSE a.date > b.date
          [] sortConfig.key = "read" ->
                 IF asc THEN a.read /\ ~b.read ELSE ~a.read /\ b.read
          [] OTHER ->
                 LET x == ToLowerCase(a[sortConfig.key])
                     y == ToLowerCase(b[sortConfig.key])
                 IN  IF asc THEN LocaleCompare(x, y) < 0 ELSE LocaleCompare(x, y) > 0

\* C13: the sorted view holds the records of the snapshot, each once, in the order of
\* the key and direction in force, and records that compare equal keep the order
\* they have in the snapshot
C13_SortStablePermutation ==
    /\ Len(sortedArticles) = Len(articles)
    /\ \A i \in 1..Len(articles) :
           \E j \in 1..Len(sortedArticles) : sortedArticles[j] = articles[i]
    /\ \A i, j \in 1..Len(sortedArticles) :
           i < j =>
               /\ ~SortsBefore(sortedArticles[j], sortedArticles[i])
               /\ ~SortsBefore(sortedArticles[i], sortedArticles[j])
                      => PositionIn(articles, sortedArticles[i])
                             < PositionIn(articles, sortedArticles[j])

\* C13 witness: read ascending over two unread records followed by a read one: the
\* read record comes first and the unread ones keep their order
C13_Witness ==
    /\ sortConfig = [key |-> "read", direction |-> "asc"]
    /\ Len(articles) = 3
    /\ ~articles[1].read /\ ~articles[2].read /\ articles[3].read
    /\ sortedArticles = <<articles[3], articles[1], articles[2]>>

\* C14: "hide read" and "show only read" are never both on; a click that turns one
\* on leaves the other off, and a click that turns one off leaves the other as it was
C14_FiltersExclusive ==
    /\ [](~(hideCompleted /\ showOnlyCompleted))
    /\ [][/\ HideCompletedClick =>
                 /\ hideCompleted' = ~hideCompleted
                 /\ hideCompleted' => ~showOnlyCompleted'
                 /\ ~hideCompleted' => showOnlyCompleted' = showOnlyCompleted
          /\ ShowOnlyCompletedClick =>
                 /\ showOnlyCompleted' = ~showOnlyCompleted
                 /\ showOnlyCompleted' => ~hideCompleted'
                 /\ ~showOnlyCompleted' => hideCompleted' = hideCompleted]_vars

\* C14 witness: "show only read" is on, "hide read" is off, and unread records are
\* dropped from the rows
C14_Witness ==
    /\ showOnlyCompleted /\ ~hideCompleted
    /\ Len(filteredArticles) < Len(articles)
    /\ \A i \in 1..Len(filteredArticles) : filteredArticles[i].read

-----------------------------------------------------------------------------
(* Tags over bounded front-matter and body tags *)

\* a comma-separated tags string has at most this many characters
MaxTagsTextLen == 3

\* an entry of a tags list has at most this many characters
MaxTagEntryLen == 2

TagEntries ==
    {Str(t) : t \in StringsUpTo({"#", "a", " "}, MaxTagEntryLen)}
        \cup {Str(<<"#", "#", "a">>)}

\* the tags property of the front-matter: missing, a comma-separated string, a list
\* of up to two strings, or a number
FrontmatterTagValues ==
    {Undef, Num(1)}
        \cup {Str(t) : t \in StringsUpTo({"#", "a", " ", ","}, MaxTagsTextLen)}
        \cup {Lst(<<>>)} \cup {Lst(<<x>>) : x \in TagEntries}
        \cup {Lst(<<x, y>>) : x \in TagEntries, y \in TagEntries}

\* metadata.tags: bare strings (t = "str") or objects with a tag field (t = "tagobj")
TagObj(s) == [t |-> "tagobj", s |-> s]

ContentTagLists ==
    {<<>>,
     <<TagObj(<<"#", "a">>)>>,
     <<TagObj(<<"#", "a">>), TagObj(<<"#", "b">>), TagObj(<<"#", "a">>)>>,
     <<Str(<<"a">>), Str(<<"#", "#", "b">>)>>,
     <<Str(<<"#">>), TagObj(<<"#", "b">>)>>}

InitTags ==
    /\ Unmounted
    /\ ignoredDirectories = <<>>
    /\ \E flag \in BOOLEAN :
           settings = [ConfiguredSettings EXCEPT !.includeFrontmatterTags = flag]
    /\ \E tv \in FrontmatterTagValues, ct \in ContentTagLists :
           vault = [d \in Docs |->
                       IF d = "d1"
                       THEN Doc(Root, <<"a">>, 1,
                                <<MkFm([k \in {<<"s">>, TagsKey} |->
                                           IF k = <<"s">> THEN Str(<<"a", ":">>) ELSE tv])>>,
                                [text |-> <<>>, tags |-> ct])
                       ELSE PlainDoc]
    /\ cache = [d \in Docs |-> ParseDoc(vault[d])]

SpecTags == InitTags /\ [][NextPath]_vars

NoDuplicates(seq) == \A i, j \in 1..Len(seq) : i # j => seq[i] # seq[j]

NoEmpty(seq) == \A i \in 1..Len(seq) : seq[i] # <<>>

\* the tag is what is left of one of the given tags once a leading '#' and the outer
\* spaces are taken off, in either order
NormalFormOf(tag, given) ==
    /\ Trim(tag) = tag
    /\ \E i \in 1..Len(given) :
           tag = Trim(StripHash(given[i])) \/ tag = StripHash(Trim(given[i]))

\* the tags a front-matter value gives: the entries of a list, the parts of a
\* comma-separated string
GivenFrontmatterTags(v) ==
    IF v.t = "list" THEN [i \in 1..Len(v.l) |-> v.l[i].s]
    ELSE IF v.t = "str" THEN Split(v.s, ",")
    ELSE <<>>

\* C15: in every record the front-matter tags and the content tags hold no string
\* twice and no empty string, and each is a given tag trimmed and without one
\* leading '#'; the front-matter tags are empty when the flag is off or the tags
\* field is missing
C15_TagListsNormalized ==
    \A i \in 1..Len(articles) :
        LET a   == articles[i]
            fm  == Head(a.content.blocks)
            raw == Get(fm, TagsKey)
        IN  /\ NoDuplicates(a.frontmatterTags) /\ NoDuplicates(a.contentTags)
            /\ NoEmpty(a.frontmatterTags) /\ NoEmpty(a.contentTags)
            /\ \A j \in 1..Len(a.frontmatterTags) :
                   NormalFormOf(a.frontmatterTags[j], GivenFrontmatterTags(raw))
            /\ \A j \in 1..Len(a.contentTags) :
                   NormalFormOf(a.contentTags[j],
                                [k \in 1..Len(a.content.body.tags) |->
                                     a.content.body.tags[k].s])
            /\ (~settings.includeFrontmatterTags \/ raw = Undef)
                   => a.frontmatterTags = <<>>

\* the first occurrences in seq, in their order
FirstSeen(seq) ==
    Pick(seq, {i \in 1..Len(seq) : \A j \in 1..(i - 1) : seq[j] # seq[i]})

C17_NormalizeIdempotent ==
    \A i \in 1..Len(articles) :
        LET a == articles[i]
        IN  /\ processFrontmatterTags(
                   [k \in {TagsKey} |->
                       Lst([j \in 1..Len(a.frontmatterTags) |-> Str(a.frontmatterTags[j])])],
                   TRUE).tags = a.frontmatterTags
            /\ processContentTags([j \in 1..Len(a.contentTags) |-> Str(a.contentTags[j])])
                   = a.contentTags

-----------------------------------------------------------------------------
(* The exclusion rule list: add, remove, clear, and the effect that saves it *)

\* newDirectory split on ',', each piece trimmed, the empty pieces dropped
DirectoriesToAdd(newDirectory) ==
    LET parts == Split(newDirectory, ",")
    IN  SelectSeq([i \in 1..Len(parts) |-> Trim(parts[i])], LAMBDA dir : dir # <<>>)

\* updatedDirectories.includes(dir)
IncludesDir(dirs, dir) == \E i \in 1..Len(dirs) : dirs[i] = dir

\* directoriesToAdd.forEach: each directory is pushed unless the list includes it
RECURSIVE AddEach(_, _)
AddEach(updatedDirectories, directoriesToAdd) ==
    IF directoriesToAdd = <<>> THEN updatedDirectories
    ELSE AddEach(IF IncludesDir(updatedDirectories, Head(directoriesToAdd))
                 THEN updatedDirectories
                 ELSE Append(updatedDirectories, Head(directoriesToAdd)),
                 Tail(directoriesToAdd))

\* the effect on [advancedSettings, plugin]: the view's copy is written to
\* plugin.settings and saved
SaveAdvancedSettings(dirs, expanded) ==
    settings' = [settings EXCEPT !.ignoredDirectories = dirs,
                                 !.isAdvancedSettingsExpanded = expanded]

\* what a new rule array sets off after the render: the save effect, and the two
\* effects that call the recreated loadArticles
RulesChanged(dirs) ==
    /\ ignoredDirectories' = dirs
    /\ SaveAdvancedSettings(dirs, isExpanded)
    /\ LoadArticlesWith(2, dirs)
    /\ UNCHANGED <<view, vault, cache, isExpanded, otherView, searchTerm, sortConfig,
                   hideCompleted, showOnlyCompleted, mounted, ops, nEdits, nClicks, nTicks>>

\* the rule controls are rendered in the expanded panel of a loaded catalog
PanelShown == mounted /\ error = "" /\ ~isLoading /\ isExpanded

\* the Add button, or Enter in the input
handleAddDirectory(newDirectory) ==
    /\ PanelShown
    /\ Trim(newDirectory) # <<>>
    /\ DirectoriesToAdd(newDirectory) # <<>>
    /\ RulesChanged(AddEach(ignoredDirectories, DirectoriesToAdd(newDirectory)))

\* a click on the chip of rule dir
handleRemoveDirectory(dir) ==
    /\ PanelShown
    /\ IncludesDir(ignoredDirectories, dir)
    /\ RulesChanged(SelectSeq(ignoredDirectories, LAMBDA d : d # dir))

\* "Clear all excluded paths", shown while the list is not empty
handleClearAllDirectories ==
    /\ PanelShown
    /\ ignoredDirectories # <<>>
    /\ RulesChanged(<<>>)

\* the panel header: isExpanded flips; the rule array is the same object, so only the
\* save effect runs
toggleAdvancedSettings ==
    /\ mounted /\ error = "" /\ ~isLoading
    /\ isExpanded' = ~isExpanded
    /\ SaveAdvancedSettings(ignoredDirectories, ~isExpanded)
    /\ UNCHANGED <<view, vault, cache, otherView, ignoredDirectories, articles, isLoading,
                   isRefreshing, error, searchTerm, sortConfig, hideCompleted,
                   showOnlyCompleted, mounted, passes, ops, nEdits, nClicks, nTicks>>

\* the ribbon icon or the command opens the catalog in a new tab: the new view's
\* advancedSettings state starts from plugin.settings
OpenOtherView ==
    /\ mounted
    /\ ~otherView.open
    /\ otherView' = [open               |-> TRUE,
                     ignoredDirectories |-> settings.ignoredDirectories,
                     isExpanded         |-> settings.isAdvancedSettingsExpanded]
    /\ UNCHANGED <<view, vault, cache, settings, isExpanded, ignoredDirectories, articles,
                   isLoading, isRefreshing, error, searchTerm, sortConfig, hideCompleted,
                   showOnlyCompleted, mounted, passes, ops, nEdits, nClicks, nTicks>>

\* the panel header of the second view
OtherViewToggle ==
    /\ otherView.open
    /\ otherView' = [otherView EXCEPT !.isExpanded = ~otherView.isExpanded]
    /\ SaveAdvancedSettings(otherView.ignoredDirectories, ~otherView.isExpanded)
    /\ UNCHANGED <<view, vault, cache, isExpanded, ignoredDirectories, articles, isLoading,
                   isRefreshing, error, searchTerm, sortConfig, hideCompleted,
                   showOnlyCompleted, mounted, passes, ops, nEdits, nClicks, nTicks>>

\* texts typed into the exclusion box
NewDirectories ==
    {<<"a">>, <<"A">>, <<"b">>, <<"a", ",", "A">>, <<" ", "a", " ">>, <<" ">>, <<",">>}

\* the stored lists the runs start from: no entry twice, in any letter case
StartLists == {<<>>, <<<<"a">>>>, <<<<"b">>>>, <<<<"a">>, <<"b">>>>}

InitRules ==
    /\ Unmounted
    /\ ignoredDirectories \in StartLists
    /\ settings = [ConfiguredSettings EXCEPT !.ignoredDirectories = ignoredDirectories]
    /\ vault = [d \in Docs |-> IF d = "d1"
                               THEN Doc(<<"a">>, <<"a">>, 1, <<FmSource>>, NoBody)
                               ELSE PlainDoc]
    /\ cache = [d \in Docs |-> ParseDoc(vault[d])]

NextRules ==
    \/ Mount
    \/ \E k \in 1..MaxPasses : PassReadResolve(k)
    \/ \E newDirectory \in NewDirectories : handleAddDirectory(newDirectory)
    \/ \E dir \in {<<"a">>, <<"A">>, <<"b">>} : handleRemoveDirectory(dir)
    \/ handleClearAllDirectories
    \/ toggleAdvancedSettings
    \/ OpenOtherView
    \/ OtherViewToggle

SpecRules == InitRules /\ [][NextRules]_vars

\* C18: after any sequence of add, remove and clear from a duplicate-free list, no two
\* entries of the exclusion rule list are equal under case-insensitive comparison
C18_NoCaseDuplicates ==
    \A i, j \in 1..Len(ignoredDirectories) :
        i # j => ~SameFolded(ignoredDirectories[i], ignoredDirectories[j])

RuleEdit ==
    \/ \E newDirectory \in NewDirectories : handleAddDirectory(newDirectory)
    \/ \E dir \in {<<"a">>, <<"A">>, <<"b">>} : handleRemoveDirectory(dir)
    \/ handleClearAllDirectories

\* C19: after every add, remove or clear the persisted exclusion list equals the
\* resulting rule list, and no other step (expanding the panel, in this view or in a
\* second open view) changes the persisted exclusion list
C19_PersistedFollowsEdits ==
    [][/\ RuleEdit => settings'.ignoredDirectories = ignoredDirectories'
       /\ ~RuleEdit => settings'.ignoredDirectories = settings.ignoredDirectories]_vars

-----------------------------------------------------------------------------
(* The snapshot is installed whole *)

\* next is prev with nothing but read flags changed
ReadToggleOnly(prev, next) ==
    /\ Len(next) = Len(prev)
    /\ \A i \in 1..Len(prev) : [next[i] EXCEPT !.read = prev[i].read] = prev[i]

\* the step ends pass k, no file after the one it waited for qualifies, and next is
\* what the pass had collected, with or without a record of that last file
InstalledByPass(k, next) ==
    LET p == passes[k]
    IN  /\ passes' = RemoveAt(passes, k)
        /\ \A j \in (p.i + 1)..Len(p.files) : ~FileQualifies(p.files[j], p.rules)
        /\ \/ next = p.acc
           \/ /\ Len(next) = Len(p.acc) + 1
              /\ SubSeq(next, 1, Len(p.acc)) = p.acc
              /\ next[Len(next)].path = FilePath(vault[p.files[p.i]])

\* a call of loadArticles that found no qualifying file and ended without suspending
InstalledEmpty(next) ==
    /\ passes' = passes
    /\ next = <<>>
    /\ \A j \in 1..Len(DocOrder) : ~FileQualifies(DocOrder[j], ignoredDirectories)

\* C20: the visible snapshot starts empty and changes only by a read toggle or by the
\* complete record list of a pass that ends in that step, never to the records of a
\* pass still in progress; and no two records of a snapshot share an id (the path)
C20_SnapshotInstalledWhole ==
    /\ articles = <<>>
    /\ [](\A i, j \in 1..Len(articles) : i # j => articles[i].path # articles[j].path)
    /\ [][articles' # articles =>
              \/ ReadToggleOnly(articles, articles')
              \/ \E k \in 1..Len(passes) : InstalledByPass(k, articles')
              \/ InstalledEmpty(articles')]_vars

\* C20 witness: after a refresh, a pass in progress holds a record of its own while
\* the snapshot of an earlier pass, with more records, is the visible one
C20_Witness ==
    /\ nTicks = 1
    /\ \E k \in 1..Len(passes) :
           /\ passes[k].acc # <<>>
           /\ Len(articles) > Len(passes[k].acc)

-----------------------------------------------------------------------------
(* A document that fails inside a pass *)

\* the tags property of the files of the runs: missing, a string, a list of strings,
\* a number, a list holding a number
SkipTagValues ==
    {Undef, Str(<<"a">>), Lst(<<Str(<<"a">>)>>), Num(1), Lst(<<Num(1)>>)}

\* three files: d1 and d2 with a source URL and some tags value, d3 with or without
\* a source URL
InitSkip ==
    /\ Unmounted
    /\ ignoredDirectories = <<>>
    /\ \E flag \in BOOLEAN :
           settings = [ConfiguredSettings EXCEPT !.includeFrontmatterTags = flag]
    /\ \E t1 \in SkipTagValues, t2 \in SkipTagValues, b3 \in {<<>>, <<FmSource>>} :
           vault = [d \in {"d1", "d2", "d3"} |->
                       CASE d = "d1" -> Doc(Root, <<"a">>, 1, <<FmView(Undef, t1)>>, NoBody)
                         [] d = "d2" -> Doc(Root, <<"b">>, 2, <<FmView(Undef, t2)>>, NoBody)
                         [] d = "d3" -> Doc(<<"a">>, <<"a">>, 3, b3, NoBody)]
    /\ cache = [d \in DOMAIN vault |-> ParseDoc(vault[d])]

NextSkip ==
    \/ Mount
    \/ Refresh
    \/ \E k \in 1..MaxPasses : PassReadResolve(k)
    \/ \E k \in 1..MaxPasses : PassReadReject(k)

SpecSkip == InitSkip /\ [][NextSkip]_vars

\* the file pass k waits for
AwaitedFile(k) == passes[k].files[passes[k].i]

\* the tags value is one the normalizer cannot handle: it is read, it is neither a
\* list nor a string, or it is a list with an entry that is not a string
TagsUnhandled(fm) ==
    LET v == Get(fm, TagsKey)
    IN  /\ settings.includeFrontmatterTags
        /\ Truthy(v)
        /\ \/ v.t \notin {"list", "str"}
           \/ v.t = "list" /\ \E i \in 1..Len(v.l) : v.l[i].t # "str"

\* what pass k holds after the step: the installed list when the step ended the
\* pass, its private list otherwise
CollectedAfter(k) ==
    IF Len(passes') < Len(passes) THEN articles' ELSE passes'[k].acc

\* the pass goes on with the next qualifying file when there is one, and ends with
\* the catalog shown (no loading indicator, no error) when there is none
ContinuesOrEndsIdle(k) ==
    LET p     == passes[k]
        later == {j \in (p.i + 1)..Len(p.files) : FileQualifies(p.files[j], p.rules)}
    IN  IF later = {}
        THEN /\ Len(passes') = Len(passes) - 1
             /\ ~isLoading' /\ error' = ""
        ELSE /\ Len(passes') = Len(passes)
             /\ passes'[k].i = CHOOSE j \in later : \A m \in later : j <= m

\* C21: when the read of a document fails or its tags cannot be normalized, the pass
\* collects nothing for it and goes on; a document that is processed adds exactly its
\* record; no such step sets the error, and a pass ends with the catalog shown
C21_FailedDocumentSkipped ==
    /\ [](error = "")
    /\ [][\A k \in 1..Len(passes) :
              /\ PassReadReject(k) =>
                     /\ CollectedAfter(k) = passes[k].acc
                     /\ ContinuesOrEndsIdle(k)
              /\ PassReadResolve(k) =>
                     /\ ContinuesOrEndsIdle(k)
                     /\ IF TagsUnhandled(passes[k].meta.fm)
                        THEN CollectedAfter(k) = passes[k].acc
                        ELSE /\ Len(CollectedAfter(k)) = Len(passes[k].acc) + 1
                             /\ SubSeq(CollectedAfter(k), 1, Len(passes[k].acc))
                                    = passes[k].acc
                             /\ CollectedAfter(k)[Len(passes[k].acc) + 1].path
                                    = FilePath(vault[AwaitedFile(k)])]_vars

\* C21 witness: the passes are over and the catalog is shown with d2 alone: d1, whose
\* tags are a number, was skipped, and so was d3, which has a source URL and whose
\* read failed
C21_Witness ==
    /\ mounted /\ passes = <<>> /\ nTicks = 1
    /\ error = "" /\ ~isLoading
    /\ Get(cache["d1"].fm, TagsKey) = Num(1)
    /\ settings.includeFrontmatterTags
    /\ ~Listed("d1") /\ Listed("d2")
    /\ cache["d3"].has /\ ~Listed("d3")

-----------------------------------------------------------------------------
(* Enumeration failure: the outer catch of loadArticles *)

FailedToLoad == "Failed to load articles"

\* the component's state that loadArticles sets
LoadState ==
    [error |-> error, passes |-> passes, articles |-> articles,
     isRefreshing |-> isRefreshing, isLoading |-> isLoading]

\* one call of loadArticles() up to its first await or its end, without setError(null)
CallOutcomeMutKeepError(st, fails, rules) ==
    IF fails
    THEN [st EXCEPT !.error = FailedToLoad, !.isRefreshing = FALSE, !.isLoading = FALSE]
    ELSE LET r == Scan(DocOrder, 1, rules, <<>>)
         IN  IF r.done
             THEN [st EXCEPT !.articles = r.acc,
                             !.isRefreshing = FALSE, !.isLoading = FALSE]
             ELSE [st EXCEPT !.passes = Append(st.passes, r),
                             !.isRefreshing = TRUE]

\* one call of loadArticles() up to its first await or its end: setIsRefreshing(true),
\* setError(null); when getMarkdownFiles() or the split of the property names throws,
\* the outer catch sets the error and the finally block runs; otherwise the loop runs
\* to its first await, or to its end when no file qualifies
CallOutcome(st, fails, rules) ==
    IF fails
    THEN [st EXCEPT !.error = FailedToLoad, !.isRefreshing = FALSE, !.isLoading = FALSE]
    ELSE LET r == Scan(DocOrder, 1, rules, <<>>)
         IN  IF r.done
             THEN [st EXCEPT !.error = "", !.articles = r.acc,
                             !.isRefreshing = FALSE, !.isLoading = FALSE]
             ELSE [st EXCEPT !.error = "", !.passes = Append(st.passes, r),
                             !.isRefreshing = TRUE]

\* the calls of one synchronous stretch, in order; fails[i] tells whether call i fails
RECURSIVE RunCalls(_, _, _)
RunCalls(st, fails, rules) ==
    IF fails = <<>> THEN st
    ELSE RunCalls(CallOutcome(st, Head(fails), rules), Tail(fails), rules)

\* the state updates of the stretch are applied together
Trigger(fails, rules) ==
    LET st == RunCalls(LoadState, fails, rules)
    IN  /\ Len(st.passes) <= MaxPasses
        /\ error' = st.error
        /\ passes' = st.passes
        /\ articles' = st.articles
        /\ isRefreshing' = st.isRefreshing
        /\ isLoading' = st.isLoading

UnchangedByTrigger ==
    UNCHANGED <<view, vault, cache, settings, isExpanded, otherView, ignoredDirectories,
                searchTerm, sortConfig, hideCompleted, showOnlyCompleted, ops, nEdits,
                nClicks>>

\* the component mounts; each of the two calls may fail
MountCalls(fails) ==
    /\ ~mounted
    /\ mounted' = TRUE
    /\ Trigger(fails, ignoredDirectories)
    /\ UNCHANGED nTicks
    /\ UnchangedByTrigger

\* triggers in one run of the error specification
MaxTriggers == 3

\* the interval callback
IntervalTick(fails) ==
    /\ mounted
    /\ nTicks < MaxTriggers
    /\ nTicks' = nTicks + 1
    /\ Trigger(<<fails>>, ignoredDirectories)
    /\ UNCHANGED mounted
    /\ UnchangedByTrigger

\* a create, delete, rename or modify notification for a file that is no note of the
\* vault: handleCreate, handleDelete, handleRename, handleModify
VaultNotification(fails) ==
    /\ mounted
    /\ nTicks < MaxTriggers
    /\ nTicks' = nTicks + 1
    /\ Trigger(<<fails>>, ignoredDirectories)
    /\ UNCHANGED mounted
    /\ UnchangedByTrigger

\* what the component renders: the error, the loading indicator, or the catalog
Screen ==
    IF error # "" THEN "error"
    ELSE IF isLoading THEN "loading"
    ELSE "catalog"

InitError ==
    /\ Unmounted
    /\ settings = ConfiguredSettings
    /\ ignoredDirectories \in {<<>>, <<<<"a">>>>}
    /\ \E b2 \in {<<>>, <<FmSource>>} :
           vault = [d \in Docs |-> IF d = "d1"
                                   THEN Doc(<<"a">>, <<"a">>, 1, <<FmSource>>, NoBody)
                                   ELSE Doc(Root, <<"b">>, 2, b2, NoBody)]
    /\ cache = [d \in Docs |-> ParseDoc(vault[d])]

NextError ==
    \/ \E fails \in [1..2 -> BOOLEAN] : MountCalls(fails)
    \/ \E fails \in BOOLEAN : IntervalTick(fails)
    \/ \E fails \in BOOLEAN : VaultNotification(fails)
    \/ \E k \in 1..MaxPasses : PassReadResolve(k)
    \/ \E k \in 1..MaxPasses : PassReadReject(k)

SpecError == InitError /\ [][NextError]_vars

\* the step is a timer tick or a repository notification
TriggerStep == nTicks' # nTicks

\* the step is a trigger whose call of loadArticles fails at enumeration
FailingTriggerStep == IntervalTick(TRUE) \/ VaultNotification(TRUE)

\* some file qualifies under the current rules
SomeFileQualifies ==
    \E j \in 1..Len(DocOrder) : FileQualifies(DocOrder[j], ignoredDirectories)

\* C22: an enumeration failure sets the error, and the error is then shown in place of
\* the catalog and of the loading indicator; every other timer tick or repository
\* notification, from the Error state as from any other, starts a pass and leaves no
\* error set
C22_ErrorShownAndCleared ==
    /\ [](error # "" => error = FailedToLoad /\ ~isLoading /\ Screen = "error")
    /\ [][TriggerStep =>
              IF FailingTriggerStep
              THEN error' = FailedToLoad /\ passes' = passes /\ articles' = articles
              ELSE /\ error' = ""
                   /\ IF SomeFileQualifies
                      THEN Len(passes') = Len(passes) + 1 /\ isRefreshing'
                      ELSE passes' = passes /\ articles' = <<>>]_vars

\* C22 witness: the error is shown in place of a catalog that holds records: a pass
\* had ended, and a later trigger failed at enumeration
C22_Witness ==
    /\ mounted /\ nTicks > 0 /\ passes = <<>>
    /\ articles # <<>>
    /\ error = FailedToLoad /\ Screen = "error"

-----------------------------------------------------------------------------
(* Overlapping passes *)

\* pass k ends in this step and next is its list: what it had collected, with or
\* without a record of the file it waited for
EndsWith(k, next) ==
    LET p == passes[k]
    IN  /\ passes' = RemoveAt(passes, k)
        /\ \/ next = p.acc
           \/ /\ Len(next) = Len(p.acc) + 1
              /\ SubSeq(next, 1, Len(p.acc)) = p.acc
              /\ next[Len(next)].path = FilePath(vault[p.files[p.i]])
              /\ next[Len(next)].urls = p.urls
              /\ next[Len(next)].read = p.read

\* C23: passes overlap and none is cancelled: a pass leaves the list of passes in
\* flight only by ending, and when it ends the visible snapshot is that pass's list,
\* whatever was shown before and whichever pass started first
C23_LastToCompleteWins ==
    [][/\ Len(passes') < Len(passes) =>
              \E k \in 1..Len(passes) : EndsWith(k, articles')
       /\ Len(passes') >= Len(passes) =>
              \A k \in 1..Len(passes) :
                  /\ passes'[k].files = passes[k].files
                  /\ passes'[k].rules = passes[k].rules
                  /\ passes'[k].i >= passes[k].i]_vars

\* C23 witness: every pass has ended and the snapshot lists d1 with a source URL that
\* neither the file nor the cache holds any more: the pass that ended last had started
\* before the cache dropped d1's front-matter, and a refresh was started as well
C23_Witness ==
    /\ mounted /\ passes = <<>> /\ ops = <<>>
    /\ nTicks = 1 /\ nEdits = 1
    /\ vault["d1"].blocks = <<>>
    /\ ~cache["d1"].has
    /\ Listed("d1") /\ Listed("d2")

-----------------------------------------------------------------------------
(* The read flag in memory and in the file *)

\* the read value the file of document d holds in its front-matter
PersistedRead(d) ==
    /\ vault[d].blocks # <<>>
    /\ Get(Head(vault[d].blocks), settings.readPropertyName) = Bool(TRUE)

\* C24: with no edit made outside the catalog, once a checkbox click has settled and
\* no other is in flight, every listed record's read flag equals the read value in
\* its file's front-matter, passes overlapping the click included
C24_ReadFlagMatchesFile ==
    (nEdits = 0 /\ nClicks > 0 /\ ops = <<>>) =>
        \A d \in DOMAIN vault : Listed(d) => (RecordOf(d).read = PersistedRead(d))

-----------------------------------------------------------------------------
(* The catalog catches up with the vault *)

\* the 60 s interval callback, as often as the timer fires
TimerTickMutIdle == mounted /\ UNCHANGED vars

TimerTick ==
    /\ mounted
    /\ LoadArticles(1)
    /\ UNCHANGED <<view, vault, cache, settings, isExpanded, otherView, ignoredDirectories,
                   searchTerm, sortConfig, hideCompleted, showOnlyCompleted, mounted,
                   ops, nEdits, nClicks, nTicks>>

NextLive ==
    \/ Mount
    \/ TimerTick
    \/ \E k \in 1..MaxPasses : PassReadResolve(k)
    \/ \E k \in 1..MaxPasses : PassReadReject(k)
    \/ \E d \in EditedDocs, blocks \in EditBlocks : ExternalEdit(d, blocks)
    \/ \E d \in Docs : CacheIndex(d)

\* the view is opened, the timer keeps firing, every read resolves or rejects, and
\* the cache indexes a changed file, each in finite time
Fairness ==
    /\ WF_vars(Mount)
    /\ WF_vars(TimerTick)
    /\ \A k \in 1..MaxPasses : WF_vars(PassReadResolve(k) \/ PassReadReject(k))
    /\ \A d \in Docs : WF_vars(CacheIndex(d))

SpecLive == Init /\ [][NextLive]_vars /\ Fairness

\* the record of document d as its file now stands
RecordFromFile(d) ==
    LET meta == ParseDoc(vault[d])
    IN  Article(d, meta,
                CollectUrls(meta.fm, PropertyNames(settings.sourcePropertyName)),
                ReadFlag(meta.fm, settings.readPropertyName),
                Content(vault[d]),
                processFrontmatterTags(meta.fm, settings.includeFrontmatterTags).tags,
                processContentTags(meta.tags))

\* the file of d is outside the excluded folders and its front-matter holds a source
\* value
QualifiesFromFile(d) ==
    /\ ~isPathIgnored(vault[d].parent, ignoredDirectories)
    /\ vault[d].blocks # <<>>
    /\ DOMAIN RecordFromFile(d).urls # {}

\* the records of the qualifying documents, in the vault's order
DerivedRecords ==
    LET qualifying == SelectSeq(DocOrder, QualifiesFromFile)
    IN  [i \in 1..Len(qualifying) |-> RecordFromFile(qualifying[i])]

NoReadRejects == \A k \in 1..Len(passes) : ~PassReadReject(k)

-----------------------------------------------------------------------------
(* The refreshing indicator *)

\* C26: isRefreshing is true exactly while some pass is in flight; the end of one of
\* several overlapping passes does not clear it
C26_RefreshingWhileInFlight == isRefreshing <=> passes # <<>>

-----------------------------------------------------------------------------
(* The error and the pass that ended last *)

\* C27: when a step leaves no pass in flight, the error is set exactly when the pass
\* that ended in that step failed at enumeration: a pass that reaches its end after
\* an overlapping call has failed leaves the catalog shown, and a failing call leaves
\* the error shown
C27_ErrorIffLastPassFailed ==
    [][/\ (Len(passes') < Len(passes) /\ passes' = <<>>) => Screen' = "catalog"
       /\ (FailingTriggerStep /\ passes' = <<>>) => Screen' = "error"]_vars

-----------------------------------------------------------------------------
(* What a pass leaves alone, and what starts a pass *)

\* the step is a step of a pass: one of its reads resolves or rejects
PassStep == \E k \in 1..Len(passes) : PassReadResolve(k) \/ PassReadReject(k)

\* the step is the landing of a checkbox write
SetReadWrites == \E k \in 1..Len(ops) : WriteResolve(k)

\* C28 as stated, for a run without outside edits and without clicks: the passes
\* started, and so the passes in flight, are no more than the timer ticks
C28_PassesBoundedByTicks ==
    (nEdits = 0 /\ nClicks = 0) => Len(passes) <= nTicks

\* C28, amended: a step of a pass changes neither the vault nor the settings nor the
\* rule list and starts no pass; the vault changes only when a checkbox write lands or
\* by an edit made outside; passes are started two at the mount, one by a timer tick
\* or refresh click, one by the notification of a vault change, and by nothing else
C28_PassesWriteNothing ==
    [][/\ PassStep =>
              /\ vault' = vault
              /\ settings' = settings
              /\ ignoredDirectories' = ignoredDirectories
              /\ Len(passes') <= Len(passes)
       /\ vault' # vault => SetReadWrites \/ nEdits' # nEdits
       /\ Len(passes') > Len(passes) =>
              \/ ~mounted /\ mounted' /\ Len(passes') = Len(passes) + 2
              \/ nTicks' # nTicks /\ Len(passes') = Len(passes) + 1
              \/ /\ SetReadWrites \/ nEdits' # nEdits
                 /\ Len(passes') = Len(passes) + 1]_vars

\* C28 witness: a checkbox write has landed in d1's file and the pass started by its
\* notification is in flight, after a timer tick and with no outside edit
C28_Witness ==
    /\ nClicks = 1 /\ ops = <<>> /\ nEdits = 0 /\ nTicks = 1
    /\ PersistedRead("d1")
    /\ Len(passes) = 1

-----------------------------------------------------------------------------
(* ClipperCatalogView: onOpen, onResize, onClose *)

\* settings-change re-opens of one view in a run
MaxReopens == 2

\* a ClipperCatalog instance is created: its state holds the useState initial values,
\* and its effects have not run yet; what an earlier instance still awaits no longer
\* reaches the visible state
NewInstance ==
    /\ articles' = <<>>
    /\ isLoading' = TRUE
    /\ isRefreshing' = FALSE
    /\ error' = ""
    /\ searchTerm' = <<>>
    /\ sortConfig' = [key |-> "date", direction |-> "desc"]
    /\ hideCompleted' = FALSE
    /\ showOnlyCompleted' = FALSE
    /\ ignoredDirectories' = settings.ignoredDirectories
    /\ isExpanded' = settings.isAdvancedSettingsExpanded
    /\ mounted' = FALSE
    /\ passes' = <<>>
    /\ UNCHANGED <<vault, cache, settings, otherView, ops, nEdits, nClicks, nTicks>>

\* onOpen, called by the workspace when the view opens and by the settings tab on each
\* open catalog view: the container is emptied, a new root is created and renders the
\* catalog inside the error boundary; the root created by an earlier call is not
\* unmounted, so its component keeps its interval and its vault listeners
onOpen ==
    /\ view.root \in {"none", "boundary", "bare"}
    /\ view.root # "none" => mounted /\ view.orphans < MaxReopens
    /\ view' = [root    |-> "boundary",
                orphans |-> IF view.root = "none" THEN view.orphans
                            ELSE view.orphans + 1]
    /\ NewInstance

\* the effects of the component of the current root run
MountInView ==
    /\ view.root \in {"boundary", "bare"}
    /\ Mount

\* onResize: this.root.render(<ClipperCatalog/>), without the error boundary. On a
\* root that renders the boundary the element type at the root changes, so the
\* boundary and the catalog inside it are unmounted (their cleanups run) and a new
\* catalog instance is mounted; on a root that already renders the bare catalog the
\* instance is kept
onResize ==
    /\ view.root \in {"boundary", "bare"}
    /\ IF view.root = "boundary"
       THEN view' = [view EXCEPT !.root = "bare"] /\ NewInstance
       ELSE UNCHANGED vars

\* onClose: the current root is unmounted, and the cleanups of its component run
onClose ==
    /\ view.root \in {"boundary", "bare"}
    /\ view' = [view EXCEPT !.root = "closed"]
    /\ mounted' = FALSE
    /\ passes' = <<>>
    /\ UNCHANGED <<vault, cache, settings, isExpanded, otherView, ignoredDirectories,
                   articles, isLoading, isRefreshing, error, searchTerm, sortConfig,
                   hideCompleted, showOnlyCompleted, ops, nEdits, nClicks, nTicks>>

\* the component instances that hold an interval and the four vault listeners
ActiveTimers == view.orphans + (IF mounted THEN 1 ELSE 0)

InitLifecycle ==
    /\ InitialValues
    /\ view = [root |-> "none", orphans |-> 0]
    /\ settings = ConfiguredSettings
    /\ ignoredDirectories = <<>>
    /\ \E b2 \in {<<>>, <<FmSource>>} :
           vault = [d \in Docs |-> IF d = "d1"
                                   THEN Doc(<<"a">>, <<"a">>, 1, <<FmSource>>, NoBody)
                                   ELSE Doc(Root, <<"b">>, 2, b2, NoBody)]
    /\ cache = [d \in Docs |-> ParseDoc(vault[d])]

NextLifecycle ==
    \/ onOpen
    \/ MountInView
    \/ onResize
    \/ onClose
    \/ \E k \in 1..MaxPasses : PassReadResolve(k)
    \/ \E term \in ViewTerms : SetSearchTerm(term)
    \/ \E key \in SortKeys : handleSort(key)
    \/ HideCompletedClick

SpecLifecycle == InitLifecycle /\ [][NextLifecycle]_vars

\* C29: at every point at most one component instance of the view holds a timer and
\* vault listeners, and none does once the view is closed
C29_OneTimerPerView ==
    /\ ActiveTimers <= 1
    /\ view.root = "closed" => ActiveTimers = 0

\* C30: a call of onResize on an open view leaves the catalog inside the error
\* boundary and the component's snapshot, search term, sort and filters as they were
C30_ResizeKeepsState ==
    [][onResize =>
           /\ view'.root = "boundary"
           /\ articles' = articles
           /\ searchTerm' = searchTerm
           /\ sortConfig' = sortConfig
           /\ hideCompleted' = hideCompleted
           /\ showOnlyCompleted' = showOnlyCompleted]_vars

====
